---- MODULE Spec2Model ----
(***************************************************************************)
(* p5control data server: the append-only hdf5 store (HDF5FileInterface,   *)
(* src/p5control/data/hdf5.py) and its callback subsystem                  *)
(* (CallbackController, src/p5control/data/callbacks.py).                  *)
(*                                                                         *)
(* Writer threads run HDF5FileInterface.append step by step; the callback  *)
(* thread drains the queue into a ThreadPool whose workers run             *)
(* _call_callback; clients register and remove callbacks and a controller  *)
(* starts and stops the callback thread.                                   *)
(***************************************************************************)
EXTENDS Integers, Sequences, FiniteSets, TLC

\* ------------------------------------------------------------------ bounds
\* writer threads (rpyc serves every client connection in its own thread)
NWriters == 2
\* threads that append to the same new path at once
NThreads == 3
\* append calls made in one behaviour of the store alone
MaxCalls == 3
\* append calls made in one behaviour of the data server
MaxServerCalls == 2
\* client threads that register callbacks concurrently, and their calls
NRegClients == 2
MaxRegisters == 3
\* start and stop calls made in one behaviour of the controller alone
MaxLifeCalls == 4
\* append calls and register_callback calls made where the locks are followed
MaxLockCalls == 2
MaxLockSubs == 3
\* devices of the instrument server, Measurement objects created, and calls
\* of measure, start and stop made in one behaviour
NDev == 2
MaxMeas == 2
MaxInsCalls == 4
\* devices whose status is collected, cycles of the status loop, losses of
\* the connection to the data server, and start and stop calls made
NStatusDev == 2
MaxCycles == 2
MaxOutages == 2
MaxStatusCalls == 3
\* append calls made while the queue is drained
MaxDrainCalls == 3
\* read calls made in one behaviour
MaxReads == 2
\* append calls made, and callbacks registered, where subscribers hang
MaxHangCalls == 4
MaxHangSubs == 4
\* register_callback calls made in one behaviour
MaxSubs == 2
\* remove_callback calls made in one behaviour
MaxRemoves == 1
\* start/stop calls made in one behaviour
MaxCtl == 1

\* settings.CALLBACK_THREAD_COUNT
CALLBACK_THREAD_COUNT == 5
\* maxsize of the callback queue, queue.Queue(): 0, no limit
QueueMaxsize == 0

\* every writer thread of the model
Writers == 1..(IF NThreads > NWriters THEN NThreads ELSE NWriters)
\* client threads inside register_callback at the same time
RegClients == 1..NRegClients
Workers == 1..CALLBACK_THREAD_COUNT

\* ------------------------------------------------------------------- paths
\* hdf5 paths are python strings; a string is modelled as the sequence of its
\* characters so that str.startswith is the prefix test on characters.
P_a == <<"/", "a">>
P_ab == <<"/", "a", "b">>
P_a_b == <<"/", "a", "/", "b">>
P_a_b_c == <<"/", "a", "/", "b", "/", "c">>
P_raw == <<"/", "r">>

AllPaths == {P_a, P_ab, P_a_b, P_a_b_c, P_raw}

\* str.startswith(prefix)
StartsWith(path, prefix) ==
    /\ Len(prefix) <= Len(path)
    /\ SubSeq(path, 1, Len(prefix)) = prefix

\* g is a proper ancestor of path in the hdf5 hierarchy
IsAncestor(g, path) == StartsWith(path, g \o <<"/">>)

NONE == [none |-> TRUE]

\* ---------------------------------------------------------------- payloads
\* The `arr` argument of append: a numpy array of shape (n, sec), or a dict
\* whose values are all scalars (vlist = FALSE) or all lists (vlist = TRUE,
\* lens[i] the length of the list under keys[i]).
ArrayOf(n, sec) ==
    [kind |-> "array", n |-> n, sec |-> sec, vlist |-> FALSE, keys |-> <<>>, lens |-> <<>>]

DictOfScalars(keys) ==
    [kind |-> "dict", n |-> 0, sec |-> 0, vlist |-> FALSE, keys |-> keys, lens |-> <<>>]

DictOfLists(keys, lens) ==
    [kind |-> "dict", n |-> 0, sec |-> 0, vlist |-> TRUE, keys |-> keys, lens |-> lens]

\* python len(arr): rows of an array, number of keys of a dict
PyLen(arr) == IF arr.kind = "array" THEN arr.n ELSE Len(arr.keys)

SeqToSet(s) == {s[i] : i \in 1..Len(s)}

MinOf(S) == CHOOSE x \in S : \A y \in S : x <= y

\* index of key k in the dict's key order
KeyIndex(arr, k) == CHOOSE i \in 1..Len(arr.keys) : arr.keys[i] = k

\* rows zip(...) yields over the columns named by names: zip stops at the
\* shortest column; a scalar value is wrapped into a one-element list
ZipLen(arr, names) ==
    IF arr.vlist
    THEN MinOf({arr.lens[KeyIndex(arr, names[i])] : i \in 1..Len(names)})
    ELSE 1

\* the rows of the batch of call c: row k of the batch is <<c, k>>
BatchRows(c, n) == [k \in 1..n |-> <<c, k>>]

\* a row that resize added and no write filled
FillRow == <<0, 0>>

Fill(n) == [k \in 1..n |-> FillRow]

\* mutant of ConsumedNames: the columns are taken in the dict's key order
ConsumedKeys(arr, dtype) == arr.keys

\* zip(*[arr[k] for k in dtype.names]): the columns consumed from the dict
\* are the record's fields, in the record's order
ConsumedNames(arr, dtype) == dtype.names

\* HDF5FileInterface._convert_to_array(arr, dtype); dtype = NONE when the
\* dataset is being created, else the dataset's record.  The result is
\* either [err |-> <exception>] or the converted array
\* [err |-> "", names |-> field names (<<>> for a plain array), sec, n].
ConvertToArray(arr, dtype) ==
    IF arr.kind = "array"
    THEN [err |-> "", names |-> <<>>, sec |-> arr.sec, n |-> arr.n]
    ELSE IF dtype = NONE
         THEN IF arr.vlist /\ \E i \in 1..Len(arr.lens) : arr.lens[i] = 0
              THEN [err |-> "IndexError", names |-> <<>>, sec |-> 0, n |-> 0]
              ELSE [err |-> "", names |-> arr.keys, sec |-> 0,
                    n |-> ZipLen(arr, arr.keys)]
         ELSE IF dtype.names = <<>>
              THEN [err |-> "TypeError", names |-> <<>>, sec |-> 0, n |-> 0]
              ELSE IF \E i \in 1..Len(dtype.names) : dtype.names[i] \notin SeqToSet(arr.keys)
                   THEN [err |-> "KeyError", names |-> <<>>, sec |-> 0, n |-> 0]
                   ELSE [err |-> "", names |-> ConsumedNames(arr, dtype), sec |-> 0,
                         n |-> ZipLen(arr, ConsumedNames(arr, dtype))]

VARIABLES
    file,       \* h5py.File: path -> dataset record, NONE where no dataset is
    lock,       \* HDF5FileInterface._lock: the writer holding it, 0 when free
    queue,      \* CallbackController.queue: notifications (path, arr, is_group)
    wpc,        \* per writer: position inside append
    wcall,      \* per writer: the locals of its running (or last) append call
    ncalls,     \* append calls made so far
    dsetCb,     \* CallbackController._dset_callbacks, in insertion order
    grpCb,      \* CallbackController._grp_callbacks, in insertion order
    nextId,     \* callbacks.id_generator: the number of the next id
    thread,     \* CallbackController._thread is set
    stopEvent,  \* CallbackController.STOP_EVENT
    loopPc,     \* position of the _callback_thread loop
    tasks,      \* the pool's task queue: submitted, not yet taken by a worker
    wk,         \* per pool worker: position inside _call_callback and locals
    ctl,        \* the controller thread: position inside start/stop, call counts
    invoked,    \* history: how often func was called per (id, call, is_group, data)
    fanout,     \* history: per notification, the snapshot `calls` and how it ended
    removes,    \* remove_callback calls made so far
    reg,        \* per registering client thread: position inside register_callback
    rd,         \* the last read call (get, get_data, get_keys) and its outcome
    held,       \* per lock of callbacks.py: the thread that holds it
    ms,         \* the Measurement objects created so far
    dv,         \* per Measurement and device: its _measuring_thread
    cl,         \* the thread that calls measure, start and stop
    ins,        \* the InstrumentServer, its status thread and its data server
    sm          \* a StatusMeasurement, its thread, its gateway and the data server

vars == <<file, lock, queue, wpc, wcall, ncalls, dsetCb, grpCb, nextId, thread,
          stopEvent, loopPc, tasks, wk, ctl, invoked, fanout, removes, reg, rd, held,
          ms, dv, cl, ins, sm>>

storeVars == <<file, lock, queue, wpc, wcall, ncalls>>
cbVars == <<dsetCb, grpCb, nextId, thread, stopEvent, loopPc, tasks, wk, ctl,
            invoked, fanout, removes>>
clientVars == <<reg, rd>>
measVars == <<ms, dv, cl, ins, sm>>

\* ------------------------------------------------------------ h5py.File
\* self._f[path]: the dataset at path, a group when path is an ancestor of a
\* dataset, KeyError ("missing") otherwise
NodeAt(f, path) ==
    IF f[path] # NONE THEN "dataset"
    ELSE IF \E d \in AllPaths : f[d] # NONE /\ IsAncestor(path, d) THEN "group"
    ELSE "missing"

\* h5py create_dataset raises when the name is taken or when an ancestor of
\* path is a dataset (a dataset has no children)
CanCreate(f, path) ==
    /\ NodeAt(f, path) = "missing"
    /\ \A d \in AllPaths : f[d] # NONE => ~IsAncestor(d, path)

\* the slice dset[-n:] of a dataset of length len: its last n rows, and the
\* whole dataset when n = 0 (-0 is 0)
TailCount(len, n) == IF n = 0 THEN len ELSE IF n <= len THEN n ELSE len

\* h5py Dataset.__setitem__ on dset[-n:] = arr: the source must have the
\* selection's shape (a source axis of length 1 is broadcast), and a plain
\* 2-d array is no source for a compound dataset of our shapes
WriteOk(dset, batch) ==
    /\ batch.names = dset.names
    /\ batch.n = TailCount(Len(dset.rows), batch.n) \/ batch.n = 1
    /\ dset.names = <<>> => (batch.sec = dset.sec \/ batch.sec = 1)

\* mutant of SetTail: the batch is written over the first n rows, dset[:n] = arr
SetHead(rows, n, new) == new \o SubSeq(rows, n + 1, Len(rows))

\* dset[-n:] = arr on the rows of a dataset: its last n rows become new
SetTail(rows, n, new) == SubSeq(rows, 1, Len(rows) - n) \o new

\* dict.update semantics of  dset.attrs[key] = value  for every kwarg
SetAttrs(attrs, kw) ==
    [k \in (DOMAIN attrs) \cup (DOMAIN kw) |-> IF k \in DOMAIN kw THEN kw[k] ELSE attrs[k]]

NoKwargs == [k \in {} |-> ""]

\* a client thread outside register_callback; got: the ids returned to it
IdleClient == [pc |-> "idle", callid |-> 0, path |-> <<>>, func |-> "", grp |-> FALSE,
               got |-> <<>>]

\* no thread: the holder of a lock that is free
Free == <<>>

\* id_generator_lock, _dset_callback_lock and _grp_callback_lock, all free
NoLocks == [idgen |-> Free, dset |-> Free, grp |-> Free]

\* no read call made yet
NoRead == [n |-> 0, op |-> "", path |-> <<>>, field |-> "", err |-> "", val |-> NONE]

\* the tuple append queues: (path, arr, False); call and stamp are history
\* (the append call it came from, the next callback id when it was queued)
DsetNotification(c, stamp) ==
    [path |-> c.path, grp |-> FALSE,
     data |-> [names |-> c.batch.names, rows |-> BatchRows(c.id, c.batch.n)],
     call |-> c.id, stamp |-> stamp]

\* the tuple _create_dataset queues: (path, None, True)
GrpNotification(c, stamp) ==
    [path |-> c.path, grp |-> TRUE, data |-> NONE, call |-> c.id, stamp |-> stamp]

\* mutant of PutReady: a callback queue that holds one notification
PutReadyOne(q) == Len(q) < 1

\* queue.Queue.put waits while maxsize > 0 and the queue holds maxsize items
PutReady(q) == QueueMaxsize = 0 \/ Len(q) < QueueMaxsize

\* mutant of CreatePut: _create_dataset without its queue.put
CreatePutNothing(q, c, stamp) == q

\* what _create_dataset puts on the callback queue
CreatePut(q, c, stamp) == Append(q, GrpNotification(c, stamp))

\* mutant of AppendPutQueue: append that queues the `arr` it was called with
AppendPutRaw(q, c, stamp) ==
    Append(q, IF c.arr.kind = "dict"
              THEN [DsetNotification(c, stamp) EXCEPT !.data = c.arr]
              ELSE DsetNotification(c, stamp))

\* mutant of AppendPutQueue: a put that overtakes what is already queued
AppendPutFront(q, c, stamp) == <<DsetNotification(c, stamp)>> \o q

\* what append puts on the callback queue once the data is written
AppendPutQueue(q, c, stamp) == Append(q, DsetNotification(c, stamp))

NoCall ==
    [id |-> 0, path |-> <<>>, arr |-> NONE, kw |-> NoKwargs, batch |-> NONE,
     node |-> "", op |-> "none", nput |-> 0, st |-> "none", err |-> "",
     len0 |-> 0, len1 |-> 0, hung |-> 0]

\* the call returned (st = "ret") or raised err (st = "exc")
Return(w, c) ==
    /\ wcall' = [wcall EXCEPT ![w] = [c EXCEPT !.st = "ret"]]
    /\ wpc' = [wpc EXCEPT ![w] = "idle"]

Raise(w, c, e) ==
    /\ wcall' = [wcall EXCEPT ![w] = [c EXCEPT !.st = "exc", !.err = e]]
    /\ wpc' = [wpc EXCEPT ![w] = "idle"]

DsetLen(f, path) == IF f[path] = NONE THEN 0 ELSE Len(f[path].rows)

\* ------------------------------------------- HDF5FileInterface.append
\* a writer starts a call only when the writers before it are busy: idle
\* writer threads are interchangeable
FirstIdle(w) == wpc[w] = "idle" /\ \A j \in Writers : j < w => wpc[j] # "idle"

\* mutant of SkipEmpty: append without its first statement
SkipEmptyNever(arr) == FALSE

\* the test of  if len(arr) == 0: return
SkipEmpty(arr) == PyLen(arr) = 0

\* the call and its first statement: if len(arr) == 0: return
AppendCall(w, path, arr, kw) ==
    /\ wpc[w] = "idle"
    /\ ncalls' = ncalls + 1
    /\ LET c == [NoCall EXCEPT !.id = ncalls + 1, !.path = path, !.arr = arr,
                               !.kw = kw, !.st = "run",
                               !.len0 = DsetLen(file, path),
                               !.len1 = DsetLen(file, path)]
       IN IF SkipEmpty(arr)
          THEN Return(w, c)
          ELSE /\ wcall' = [wcall EXCEPT ![w] = c]
               /\ wpc' = [wpc EXCEPT ![w] = "acquire"]
    /\ UNCHANGED <<file, lock, queue>>
    /\ UNCHANGED <<cbVars, clientVars, measVars, held>>

\* with self._lock: (blocks while another thread holds the lock).
\* AppendAcquireFree is the step itself, and alone it is the mutant of
\* AppendAcquire: append without the lock
AppendAcquireFree(w) ==
    /\ wpc[w] = "acquire"
    /\ wpc' = [wpc EXCEPT ![w] = "lookup"]
    /\ lock' = w
    /\ UNCHANGED <<file, queue, wcall, ncalls>>
    /\ UNCHANGED <<cbVars, clientVars, measVars, held>>

AppendAcquire(w) ==
    /\ lock = 0
    /\ AppendAcquireFree(w)

\* leaving the with block, normally or by an exception, releases the lock
Release(w) == lock' = IF lock = w THEN 0 ELSE lock

\* try: dset = self._f[path]; except KeyError: arr = _convert_to_array(arr)
\* else: arr = _convert_to_array(arr, dset.dtype)   (a Group has no dtype)
AppendLookup(w) ==
    /\ wpc[w] = "lookup"
    /\ LET c == wcall[w]
           node == NodeAt(file, c.path)
           conv == ConvertToArray(c.arr, IF node = "dataset" THEN file[c.path] ELSE NONE)
           c1 == [c EXCEPT !.node = node, !.len0 = DsetLen(file, c.path),
                           !.len1 = DsetLen(file, c.path)]
       IN IF node = "group"
          THEN Raise(w, c1, "AttributeError") /\ Release(w)
          ELSE IF conv.err # ""
          THEN Raise(w, c1, conv.err) /\ Release(w)
          ELSE /\ wcall' = [wcall EXCEPT ![w] = [c1 EXCEPT !.batch = conv]]
               /\ wpc' = [wpc EXCEPT ![w] = IF node = "missing" THEN "create" ELSE "resize"]
               /\ UNCHANGED lock
    /\ UNCHANGED <<file, queue, ncalls>>
    /\ UNCHANGED <<cbVars, clientVars, measVars, held>>

\* dset = self._create_dataset(path, arr): create_dataset(path, data=arr, ...),
\* dset.attrs["created_on"] = time.ctime(), queue.put((path, None, True));
\* then the with block ends
AppendCreate(w) ==
    /\ wpc[w] = "create"
    /\ LET c == wcall[w]
       IN IF ~CanCreate(file, c.path)
          THEN /\ Raise(w, [c EXCEPT !.len1 = DsetLen(file, c.path)], "ValueError")
               /\ UNCHANGED <<file, queue>>
          ELSE /\ file' = [file EXCEPT ![c.path] =
                              [names |-> c.batch.names, sec |-> c.batch.sec,
                               rows |-> BatchRows(c.id, c.batch.n),
                               attrs |-> [k \in {"created_on"} |-> "ctime"]]]
               /\ PutReady(queue)
               /\ queue' = CreatePut(queue, c, nextId)
               /\ wcall' = [wcall EXCEPT ![w] =
                              [c EXCEPT !.op = "create",
                                        !.nput = Len(queue') - Len(queue),
                                        !.len1 = c.batch.n]]
               /\ wpc' = [wpc EXCEPT ![w] = IF c.kw = NoKwargs THEN "put" ELSE "attrs"]
    /\ Release(w)
    /\ UNCHANGED ncalls
    /\ UNCHANGED <<cbVars, clientVars, measVars, held>>

\* dset.resize(dset.shape[0] + arr.shape[0], axis=0)
AppendResize(w) ==
    /\ wpc[w] = "resize"
    /\ LET c == wcall[w]
       IN /\ file' = [file EXCEPT ![c.path].rows = @ \o Fill(c.batch.n)]
          /\ wcall' = [wcall EXCEPT ![w].op = "extend"]
    /\ wpc' = [wpc EXCEPT ![w] = "write"]
    /\ UNCHANGED <<lock, queue, ncalls>>
    /\ UNCHANGED <<cbVars, clientVars, measVars, held>>

\* dset[-arr.shape[0]:] = arr; then the with block ends
AppendWrite(w) ==
    /\ wpc[w] = "write"
    /\ LET c == wcall[w]
           dset == file[c.path]
           len == Len(dset.rows)
           c1 == [c EXCEPT !.len1 = len]
       IN IF ~WriteOk(dset, c.batch)
          THEN /\ Raise(w, c1, "TypeError")
               /\ UNCHANGED file
          ELSE /\ file' = [file EXCEPT ![c.path].rows =
                              SetTail(@, c.batch.n, BatchRows(c.id, c.batch.n))]
               /\ wcall' = [wcall EXCEPT ![w] = c1]
               /\ wpc' = [wpc EXCEPT ![w] = IF c.kw = NoKwargs THEN "put" ELSE "attrs"]
    /\ Release(w)
    /\ UNCHANGED <<queue, ncalls>>
    /\ UNCHANGED <<cbVars, clientVars, measVars, held>>

\* for (key, value) in kwargs.items(): dset.attrs[key] = value
AppendAttrs(w) ==
    /\ wpc[w] = "attrs"
    /\ LET c == wcall[w]
       IN file' = [file EXCEPT ![c.path].attrs = SetAttrs(@, c.kw)]
    /\ wpc' = [wpc EXCEPT ![w] = "put"]
    /\ UNCHANGED <<lock, queue, wcall, ncalls>>
    /\ UNCHANGED <<cbVars, clientVars, measVars, held>>

\* if self._callback_queue: self._callback_queue.put((path, arr, False));
\* hung is history: the pool workers inside a callback that does not return
AppendPut(w) ==
    /\ wpc[w] = "put"
    /\ PutReady(queue)
    /\ LET c == wcall[w]
       IN /\ queue' = AppendPutQueue(queue, c, nextId)
          /\ Return(w, [c EXCEPT !.nput = @ + Len(queue') - Len(queue),
                                 !.hung = Cardinality({k \in Workers : wk[k].pc = "hung"})])
    /\ UNCHANGED <<file, lock, ncalls>>
    /\ UNCHANGED <<cbVars, clientVars, measVars, held>>

\* one step of writer w inside a running append call
AppendStep(w) ==
    \/ AppendAcquire(w)
    \/ AppendLookup(w)
    \/ AppendCreate(w)
    \/ AppendResize(w)
    \/ AppendWrite(w)
    \/ AppendAttrs(w)
    \/ AppendPut(w)

\* ------------------------------------- get_data / get / get_keys
\* p is a child of the group g: below g, with no further "/" in its name
IsChild(g, p) ==
    /\ IsAncestor(g, p)
    /\ \A i \in (Len(g) + 2)..Len(p) : p[i] # "/"

\* tuple(self._f[path].keys()) of a group: the names of its children
Keys(f, g) ==
    {SubSeq(p, Len(g) + 2, Len(p)) : p \in {q \in AllPaths : NodeAt(f, q) # "missing" /\ IsChild(g, q)}}

\* mutant of GetDataOutcome: get_data without its isinstance test
GetDataNoTest(f, path, field) ==
    IF NodeAt(f, path) = "missing" THEN [err |-> "KeyError", val |-> NONE]
    ELSE [err |-> "", val |-> NONE]

\* mutant of GetDataOutcome: get_data that returns the first row only
GetDataFirstRow(f, path, field) ==
    IF NodeAt(f, path) # "dataset" THEN [err |-> "KeyError", val |-> NONE]
    ELSE [err |-> "", val |-> [field |-> field, rows |-> SubSeq(f[path].rows, 1, 1)]]

\* HDF5FileInterface.get_data(path, (), field); field "" stands for None.
\* dset[field] needs a compound dataset that has the field
GetDataOutcome(f, path, field) ==
    IF NodeAt(f, path) = "missing" THEN [err |-> "KeyError", val |-> NONE]
    ELSE IF NodeAt(f, path) # "dataset"
         THEN [err |-> "HDF5FileInterfaceError", val |-> NONE]
         ELSE IF field # "" /\ field \notin SeqToSet(f[path].names)
              THEN [err |-> "ValueError", val |-> NONE]
              ELSE [err |-> "", val |-> [field |-> field, rows |-> f[path].rows]]

\* HDF5FileInterface.get(path): self._f[path]
GetOutcome(f, path) ==
    IF NodeAt(f, path) = "missing" THEN [err |-> "KeyError", val |-> NONE]
    ELSE [err |-> "", val |-> [node |-> NodeAt(f, path), path |-> path]]

\* HDF5FileInterface.get_keys(path): a dataset has no keys()
GetKeysOutcome(f, path) ==
    IF NodeAt(f, path) = "missing" THEN [err |-> "KeyError", val |-> NONE]
    ELSE IF NodeAt(f, path) = "dataset" THEN [err |-> "AttributeError", val |-> NONE]
         ELSE [err |-> "", val |-> [keys |-> Keys(f, path)]]

\* a read call with outcome o; every read is one access to the file object,
\* made without the lock
Read(op, path, field, o) ==
    /\ rd' = [n |-> rd.n + 1, op |-> op, path |-> path, field |-> field,
              err |-> o.err, val |-> o.val]
    /\ UNCHANGED <<storeVars, cbVars, reg, held, measVars>>

GetData(path, field) == Read("get_data", path, field, GetDataOutcome(file, path, field))

Get(path) == Read("get", path, "", GetOutcome(file, path))

GetKeys(path) == Read("get_keys", path, "", GetKeysOutcome(file, path))

\* what h5py raises for a selection that is no index, slice or field name
SelectionErrors == {"TypeError", "ValueError", "IndexError"}

\* GuiDataGateway.register_callback(path, func, is_group): BaseGatewayError
\* when the gateway does not allow callbacks; else  f = getattr(root,
\* 'get_data'); res = f(path, func, is_group): the data server runs
\* get_data(path, indices=func, field=is_group), whose selection by a
\* callable h5py refuses.  args is <<func, is_group, allow_callback>>
GuiRegisterCallback(path, func, isGroup, allow) ==
    \E o \in IF ~allow THEN {[err |-> "BaseGatewayError", val |-> NONE]}
              ELSE IF NodeAt(file, path) = "dataset"
                   THEN {[err |-> e, val |-> NONE] : e \in SelectionErrors}
                   ELSE {GetDataOutcome(file, path, "")} :
        Read("register_callback", path, <<func, isGroup, allow>>, o)

\* ----------------------------------------------- CallbackController
\* an entry of _dset_callbacks / _grp_callbacks: callid -> (path, func).
\* func is the registered callable, told apart by what calling it does:
\* "ok" returns, "eof" raises EOFError or TimeoutExpired (the peer is gone),
\* "hang" never returns.
Funcs == {"ok", "eof", "hang"}

Ids(cbs) == {cbs[i].id : i \in 1..Len(cbs)}

\* dict.pop(callid) on a dict that holds callid
Pop(cbs, callid) == SelectSeq(cbs, LAMBDA e : e.id # callid)

\* mutant of GrpMatch: group callbacks matched like dataset callbacks
GrpMatchEqual(path, callpath) == callpath = path

\* the test of the group branch: path.startswith(callpath)
GrpMatch(path, callpath) == StartsWith(path, callpath)

\* the test of the dataset branch: callpath == path
DsetMatch(path, callpath) == callpath = path

\* the list `calls` _call_callback builds under the map's lock
Snapshot(args, dcb, gcb) ==
    IF args.grp
    THEN SelectSeq(gcb, LAMBDA e : GrpMatch(args.path, e.path))
    ELSE SelectSeq(dcb, LAMBDA e : DsetMatch(args.path, e.path))

\* mutant of CallArg: the dataset callback is handed the whole dataset
CallArgHistory(args) ==
    IF args.grp THEN args.path
    ELSE [names |-> args.data.names, rows |-> file[args.path].rows]

\* the argument func is called with: func(path) for a group callback,
\* func(data) for a dataset callback
CallArg(args) == IF args.grp THEN args.path ELSE args.data

NKey(args) == <<args.call, args.grp>>

IdleWorker == [pc |-> "idle", args |-> NONE, calls |-> <<>>, i |-> 0]

\* the pool lives from the start of _callback_thread to the end of pool.join()
PoolAlive == loopPc \in {"check", "get", "close"}

\* history: one more call of the func of entry e (callid e.id, registered on
\* e.path) with argument arg, made for the notification args
Invoke(inv, e, args, arg) ==
    LET r == [id |-> e.id, callpath |-> e.path, func |-> e.func, call |-> args.call,
              grp |-> args.grp, path |-> args.path, arg |-> arg]
    IN [x \in (DOMAIN inv) \cup {r} |->
          IF x = r THEN (IF r \in DOMAIN inv THEN inv[r] + 1 ELSE 1) ELSE inv[x]]

\* history: the callids of `calls` built for the notification args, and how
\* far the loop over calls has come ("run", "done", or "aborted" by a raise)
SetFanout(fo, args, snap, st) ==
    [x \in (DOMAIN fo) \cup {NKey(args)} |->
        IF x = NKey(args)
        THEN [snap |-> snap, st |-> st, path |-> args.path, stamp |-> args.stamp]
        ELSE fo[x]]

\* a pool worker takes the next task; idle workers are interchangeable, the
\* one with the lowest number takes it
WorkerTake(k) ==
    /\ PoolAlive
    /\ wk[k].pc = "idle"
    /\ \A j \in Workers : j < k => wk[j].pc # "idle"
    /\ tasks # <<>>
    /\ tasks' = Tail(tasks)
    /\ wk' = [wk EXCEPT ![k] = [IdleWorker EXCEPT !.pc = "snapshot", !.args = Head(tasks)]]
    /\ UNCHANGED <<dsetCb, grpCb, nextId, thread, stopEvent, loopPc, ctl, invoked,
                   fanout, removes>>
    /\ UNCHANGED <<storeVars, clientVars, measVars, held>>

\* with self._grp_callback_lock / self._dset_callback_lock: build calls
WorkerSnapshot(k) ==
    /\ wk[k].pc = "snapshot"
    /\ LET args == wk[k].args
           calls == Snapshot(args, dsetCb, grpCb)
           snap == [i \in 1..Len(calls) |-> calls[i].id]
       IN IF calls = <<>>
          THEN /\ wk' = [wk EXCEPT ![k] = IdleWorker]
               /\ fanout' = SetFanout(fanout, args, snap, "done")
          ELSE /\ wk' = [wk EXCEPT ![k].pc = "call", ![k].calls = calls, ![k].i = 1]
               /\ fanout' = SetFanout(fanout, args, snap, "run")
    /\ UNCHANGED <<dsetCb, grpCb, nextId, thread, stopEvent, loopPc, tasks, ctl,
                   invoked, removes>>
    /\ UNCHANGED <<storeVars, clientVars, measVars, held>>

\* the loop goes on to the next entry of calls, or _call_callback returns
NextCall(k) ==
    LET w == wk[k]
    IN IF w.i < Len(w.calls)
       THEN /\ wk' = [wk EXCEPT ![k].pc = "call", ![k].i = w.i + 1]
            /\ UNCHANGED fanout
       ELSE /\ wk' = [wk EXCEPT ![k] = IdleWorker]
            /\ fanout' = [fanout EXCEPT ![NKey(w.args)].st = "done"]

\* an exception leaves _call_callback: the pool keeps it in the AsyncResult
\* nobody reads, and the worker is free again
Abort(k) ==
    /\ wk' = [wk EXCEPT ![k] = IdleWorker]
    /\ fanout' = [fanout EXCEPT ![NKey(wk[k].args)].st = "aborted"]

\* try: func(path) / func(data)
WorkerCall(k) ==
    /\ wk[k].pc = "call"
    /\ LET w == wk[k]
           e == w.calls[w.i]
       IN /\ invoked' = Invoke(invoked, e, w.args, CallArg(w.args))
          /\ IF e.func = "ok" THEN NextCall(k)
             ELSE /\ wk' = [wk EXCEPT ![k].pc = IF e.func = "eof" THEN "except" ELSE "hung"]
                  /\ UNCHANGED fanout
    /\ UNCHANGED <<dsetCb, grpCb, nextId, thread, stopEvent, loopPc, tasks, ctl, removes>>
    /\ UNCHANGED <<storeVars, clientVars, measVars, held>>

\* mutant of RemoveFrom: the first entry of a map is popped, whatever its id
RemoveFirst(dcb, gcb, callid) ==
    IF dcb # <<>> THEN <<Tail(dcb), gcb>>
    ELSE IF gcb # <<>> THEN <<dcb, Tail(gcb)>>
    ELSE <<dcb, gcb>>

\* CallbackController.remove_callback(callid) applied to the two maps
RemoveFrom(dcb, gcb, callid) ==
    IF callid \in Ids(dcb) THEN <<Pop(dcb, callid), gcb>>
    ELSE IF callid \in Ids(gcb) THEN <<dcb, Pop(gcb, callid)>>
    ELSE <<dcb, gcb>>

\* except (EOFError, TimeoutExpired) of the group branch:
\* self._grp_callbacks.pop(callid), a KeyError when callid is gone
GrpExcept(k) ==
    LET callid == wk[k].calls[wk[k].i].id
    IN IF callid \in Ids(grpCb)
       THEN /\ grpCb' = Pop(grpCb, callid)
            /\ NextCall(k)
       ELSE /\ UNCHANGED grpCb
            /\ Abort(k)

\* except (EOFError, TimeoutExpired) of the dataset branch:
\* self.remove_callback(callid)
DsetExcept(k) ==
    LET callid == wk[k].calls[wk[k].i].id
        r == RemoveFrom(dsetCb, grpCb, callid)
    IN /\ dsetCb' = r[1]
       /\ grpCb' = r[2]
       /\ NextCall(k)

WorkerExcept(k) ==
    /\ wk[k].pc = "except"
    /\ IF wk[k].args.grp
       THEN GrpExcept(k) /\ UNCHANGED dsetCb
       ELSE DsetExcept(k)
    /\ UNCHANGED <<nextId, thread, stopEvent, loopPc, tasks, ctl, invoked, removes>>
    /\ UNCHANGED <<storeVars, clientVars, measVars, held>>

\* --------------------------------------------------- _callback_thread
\* mutant of ApplyAsyncReady: the loop hands a task over to a free worker only
ApplyAsyncWaits(workers) == \E k \in Workers : workers[k].pc = "idle"

\* pool.apply_async puts the task on the pool's unbounded task queue and
\* returns at once, whatever the workers are doing
ApplyAsyncReady(workers) == TRUE

\* mutant of QueueGet: a get that leaves the item on the queue
QueueGetPeek(q) == q

\* queue.Queue.get: the queue once its first item is taken off
QueueGet(q) == Tail(q)

\* while not stop_event.is_set():
LoopCheck ==
    /\ loopPc = "check"
    /\ loopPc' = IF stopEvent THEN "close" ELSE "get"
    /\ UNCHANGED <<dsetCb, grpCb, nextId, thread, stopEvent, tasks, wk, ctl, invoked,
                   fanout, removes>>
    /\ UNCHANGED <<storeVars, clientVars, measVars, held>>

\* args = self.queue.get(block=True, timeout=refresh_delay);
\* pool.apply_async(self._call_callback, args=args)
LoopGet ==
    /\ loopPc = "get"
    /\ queue # <<>>
    /\ ApplyAsyncReady(wk)
    /\ queue' = QueueGet(queue)
    /\ tasks' = Append(tasks, Head(queue))
    /\ loopPc' = "check"
    /\ UNCHANGED <<dsetCb, grpCb, nextId, thread, stopEvent, wk, ctl, invoked, fanout,
                   removes>>
    /\ UNCHANGED <<file, lock, wpc, wcall, ncalls, clientVars, measVars, held>>

\* except queue.Empty: continue  (the timeout ran out on an empty queue)
LoopTimeout ==
    /\ loopPc = "get"
    /\ queue = <<>>
    /\ loopPc' = "check"
    /\ UNCHANGED <<dsetCb, grpCb, nextId, thread, stopEvent, tasks, wk, ctl, invoked,
                   fanout, removes>>
    /\ UNCHANGED <<storeVars, clientVars, measVars, held>>

\* pool.close(); pool.join() returns once every submitted task has ended;
\* stop_event.clear(); the thread ends
LoopClose ==
    /\ loopPc = "close"
    /\ tasks = <<>>
    /\ \A k \in Workers : wk[k].pc = "idle"
    /\ stopEvent' = FALSE
    /\ loopPc' = "done"
    /\ UNCHANGED <<dsetCb, grpCb, nextId, thread, tasks, wk, ctl, invoked, fanout, removes>>
    /\ UNCHANGED <<storeVars, clientVars, measVars, held>>

\* ------------------------------------- register / remove / start / stop
\* util.name_generator("id", width=4): gen numbers the name the generator
\* yields next; each next() yields a name not yielded before
NameGeneratorNext(gen) == gen + 1

\* mutant of GetCallbackId: the id is read and the generator not advanced
GetCallbackIdPeek(gen) == <<gen, gen>>

\* get_callback_id(): with id_generator_lock: newid = next(id_generator).
\* The pair of the id returned and the generator afterwards
GetCallbackId(gen) == <<gen, NameGeneratorNext(gen)>>

\* the map insertion of register_callback, under the map's lock
InsertCallback(callid, path, func, isGroup) ==
    LET e == [id |-> callid, path |-> path, func |-> func]
    IN IF isGroup
       THEN grpCb' = Append(grpCb, e) /\ UNCHANGED dsetCb
       ELSE dsetCb' = Append(dsetCb, e) /\ UNCHANGED grpCb

\* register_callback in two steps, for client threads that run it at the
\* same time; first step: callid = get_callback_id()
RegisterBegin(t, path, func, isGroup) ==
    /\ reg[t].pc = "idle"
    /\ LET g == GetCallbackId(nextId)
       IN /\ nextId' = g[2]
          /\ reg' = [reg EXCEPT ![t] = [@ EXCEPT !.pc = "insert", !.callid = g[1],
                                                 !.path = path, !.func = func,
                                                 !.grp = isGroup]]
    /\ UNCHANGED <<dsetCb, grpCb, thread, stopEvent, loopPc, tasks, wk, ctl, invoked,
                   fanout, removes, rd, held, measVars>>
    /\ UNCHANGED storeVars

\* second step: with the map's lock: map[callid] = (path, func); return callid
RegisterInsert(t) ==
    /\ reg[t].pc = "insert"
    /\ InsertCallback(reg[t].callid, reg[t].path, reg[t].func, reg[t].grp)
    /\ reg' = [reg EXCEPT ![t] = [IdleClient EXCEPT !.got = Append(reg[t].got, reg[t].callid)]]
    /\ UNCHANGED <<nextId, thread, stopEvent, loopPc, tasks, wk, ctl, invoked, fanout,
                   removes, rd, held, measVars>>
    /\ UNCHANGED storeVars

\* CallbackController.register_callback(path, func, is_group), the whole call
RegisterCallback(path, func, isGroup) ==
    /\ LET g == GetCallbackId(nextId)
       IN /\ nextId' = g[2]
          /\ InsertCallback(g[1], path, func, isGroup)
    /\ UNCHANGED <<thread, stopEvent, loopPc, tasks, wk, ctl, invoked, fanout, removes>>
    /\ UNCHANGED <<storeVars, clientVars, measVars, held>>

\* CallbackController.remove_callback(callid), called by a client
RemoveCallback(callid) ==
    /\ removes < MaxRemoves
    /\ removes' = removes + 1
    /\ LET r == RemoveFrom(dsetCb, grpCb, callid)
       IN dsetCb' = r[1] /\ grpCb' = r[2]
    /\ UNCHANGED <<nextId, thread, stopEvent, loopPc, tasks, wk, ctl, invoked, fanout>>
    /\ UNCHANGED <<storeVars, clientVars, measVars, held>>

\* mutant of Start: start without the test of self._thread
StartUnchecked ==
    /\ ctl.pc = "idle"
    /\ thread' = TRUE
    /\ loopPc' = "check"
    /\ ctl' = [ctl EXCEPT !.n = @ + 1, !.op = "start", !.err = ""]
    /\ UNCHANGED <<dsetCb, grpCb, nextId, stopEvent, tasks, wk, invoked, fanout, removes>>
    /\ UNCHANGED <<storeVars, clientVars, measVars, held>>

\* CallbackController.start()
Start ==
    /\ ctl.pc = "idle"
    /\ IF thread
       THEN /\ ctl' = [ctl EXCEPT !.n = @ + 1, !.op = "start", !.err = "CallbackControllerError"]
            /\ UNCHANGED <<thread, loopPc>>
       ELSE /\ thread' = TRUE
            /\ loopPc' = "check"
            /\ ctl' = [ctl EXCEPT !.n = @ + 1, !.op = "start", !.err = ""]
    /\ UNCHANGED <<dsetCb, grpCb, nextId, stopEvent, tasks, wk, invoked, fanout, removes>>
    /\ UNCHANGED <<storeVars, clientVars, measVars, held>>

\* CallbackController.stop() up to the join: STOP_EVENT.set(), every dataset
\* callback popped, then for key in copy: self._grp_callbacks.pop(), which is
\* a TypeError (dict.pop takes a key) as soon as there is a group callback
Stop ==
    /\ ctl.pc = "idle"
    /\ IF ~thread
       THEN /\ ctl' = [ctl EXCEPT !.n = @ + 1, !.op = "stop", !.err = "CallbackControllerError"]
            /\ UNCHANGED <<stopEvent, dsetCb>>
       ELSE /\ stopEvent' = TRUE
            /\ dsetCb' = <<>>
            /\ IF grpCb # <<>>
               THEN ctl' = [ctl EXCEPT !.n = @ + 1, !.op = "stop", !.err = "TypeError"]
               ELSE ctl' = [ctl EXCEPT !.n = @ + 1, !.op = "stop", !.err = "", !.pc = "join"]
    /\ UNCHANGED <<grpCb, nextId, thread, loopPc, tasks, wk, invoked, fanout, removes>>
    /\ UNCHANGED <<storeVars, clientVars, measVars, held>>

\* self._thread.join(); self._thread = None
StopJoin ==
    /\ ctl.pc = "join"
    /\ loopPc = "done"
    /\ thread' = FALSE
    /\ ctl' = [ctl EXCEPT !.pc = "idle"]
    /\ UNCHANGED <<dsetCb, grpCb, nextId, stopEvent, loopPc, tasks, wk, invoked, fanout,
                   removes>>
    /\ UNCHANGED <<storeVars, clientVars, measVars, held>>

\* ------------------------------------------- the locks of callbacks.py
\* the threads that take them
WorkerThread(k) == <<"worker", k>>
ClientThread(t) == <<"client", t>>
CtlThread == <<"ctl", 0>>
WriterThread(w) == <<"writer", w>>

\* entering  with <lock>:  the thread waits until the lock is free
LockAcquire(l, th) ==
    /\ held[l] = Free
    /\ held' = [held EXCEPT ![l] = th]

\* leaving a with block, normally or by an exception
LockRelease(h, l) == [h EXCEPT ![l] = Free]

\* self._grp_callback_lock for a group, self._dset_callback_lock otherwise
MapLock(isGroup) == IF isGroup THEN "grp" ELSE "dset"

\* mutant of SnapshotUnlock: the map's lock is kept while the callbacks run
SnapshotKeepLock(h, l) == h

\* the end of the with block in which _call_callback builds calls
SnapshotUnlock(h, l) == LockRelease(h, l)

\* mutant of RemoveDsetUnlock: the second with block nested in the first
RemoveDsetKeepLock(h) == h

\* the end of the first with block of remove_callback
RemoveDsetUnlock(h) == LockRelease(h, "dset")

\* _call_callback, first half: with self._grp_callback_lock / _dset_callback_lock
CallCallbackAcquire(k) ==
    /\ wk[k].pc = "snapshot"
    /\ LockAcquire(MapLock(wk[k].args.grp), WorkerThread(k))
    /\ wk' = [wk EXCEPT ![k].pc = "locked"]
    /\ UNCHANGED <<dsetCb, grpCb, nextId, thread, stopEvent, loopPc, tasks, ctl, invoked,
                   fanout, removes>>
    /\ UNCHANGED <<storeVars, clientVars, measVars>>

\* calls is built under the lock, and the with block ends
CallCallbackSnapshot(k) ==
    /\ wk[k].pc = "locked"
    /\ LET args == wk[k].args
           calls == Snapshot(args, dsetCb, grpCb)
           snap == [i \in 1..Len(calls) |-> calls[i].id]
       IN /\ IF calls = <<>>
             THEN /\ wk' = [wk EXCEPT ![k] = IdleWorker]
                  /\ fanout' = SetFanout(fanout, args, snap, "done")
             ELSE /\ wk' = [wk EXCEPT ![k].pc = "call", ![k].calls = calls, ![k].i = 1]
                  /\ fanout' = SetFanout(fanout, args, snap, "run")
          /\ held' = SnapshotUnlock(held, MapLock(args.grp))
    /\ UNCHANGED <<dsetCb, grpCb, nextId, thread, stopEvent, loopPc, tasks, ctl,
                   invoked, removes>>
    /\ UNCHANGED <<storeVars, clientVars, measVars>>

\* except (EOFError, TimeoutExpired) of the group branch: the pop, no lock
ExceptGrpPop(k) ==
    /\ wk[k].pc = "except"
    /\ wk[k].args.grp
    /\ WorkerExcept(k)

\* except of the dataset branch: self.remove_callback(callid), which begins
\* with self._dset_callback_lock
ExceptRemoveAcquire(k) ==
    /\ wk[k].pc = "except"
    /\ ~wk[k].args.grp
    /\ LockAcquire("dset", WorkerThread(k))
    /\ wk' = [wk EXCEPT ![k].pc = "rm_dset"]
    /\ UNCHANGED <<dsetCb, grpCb, nextId, thread, stopEvent, loopPc, tasks, ctl, invoked,
                   fanout, removes>>
    /\ UNCHANGED <<storeVars, clientVars, measVars>>

\* if callid in self._dset_callbacks: pop and return; the with block ends
ExceptRemoveDset(k) ==
    /\ wk[k].pc = "rm_dset"
    /\ LET callid == wk[k].calls[wk[k].i].id
       IN IF callid \in Ids(dsetCb)
          THEN /\ dsetCb' = Pop(dsetCb, callid)
               /\ NextCall(k)
               /\ held' = LockRelease(held, "dset")
          ELSE /\ wk' = [wk EXCEPT ![k].pc = "rm_grp_wait"]
               /\ held' = RemoveDsetUnlock(held)
               /\ UNCHANGED <<dsetCb, fanout>>
    /\ UNCHANGED <<grpCb, nextId, thread, stopEvent, loopPc, tasks, ctl, invoked, removes>>
    /\ UNCHANGED <<storeVars, clientVars, measVars>>

\* with self._grp_callback_lock
ExceptRemoveGrpAcquire(k) ==
    /\ wk[k].pc = "rm_grp_wait"
    /\ LockAcquire("grp", WorkerThread(k))
    /\ wk' = [wk EXCEPT ![k].pc = "rm_grp"]
    /\ UNCHANGED <<dsetCb, grpCb, nextId, thread, stopEvent, loopPc, tasks, ctl, invoked,
                   fanout, removes>>
    /\ UNCHANGED <<storeVars, clientVars, measVars>>

\* if callid in self._grp_callbacks: pop; the with block ends, and so does
\* remove_callback
ExceptRemoveGrp(k) ==
    /\ wk[k].pc = "rm_grp"
    /\ LET callid == wk[k].calls[wk[k].i].id
       IN grpCb' = Pop(grpCb, callid)
    /\ NextCall(k)
    /\ held' = LockRelease(held, "grp")
    /\ UNCHANGED <<dsetCb, nextId, thread, stopEvent, loopPc, tasks, ctl, invoked, removes>>
    /\ UNCHANGED <<storeVars, clientVars, measVars>>

\* register_callback by client thread t; get_callback_id: with id_generator_lock
RegisterIdAcquire(t, path, func, isGroup) ==
    /\ reg[t].pc = "idle"
    /\ LockAcquire("idgen", ClientThread(t))
    /\ reg' = [reg EXCEPT ![t] = [@ EXCEPT !.pc = "idgen", !.path = path, !.func = func,
                                           !.grp = isGroup]]
    /\ UNCHANGED <<storeVars, cbVars, rd, measVars>>

\* newid = next(id_generator); the with block ends
RegisterId(t) ==
    /\ reg[t].pc = "idgen"
    /\ LET g == GetCallbackId(nextId)
       IN /\ nextId' = g[2]
          /\ reg' = [reg EXCEPT ![t].pc = "map_wait", ![t].callid = g[1]]
    /\ held' = LockRelease(held, "idgen")
    /\ UNCHANGED <<dsetCb, grpCb, thread, stopEvent, loopPc, tasks, wk, ctl, invoked,
                   fanout, removes, rd, measVars>>
    /\ UNCHANGED storeVars

\* with self._grp_callback_lock / with self._dset_callback_lock
RegisterMapAcquire(t) ==
    /\ reg[t].pc = "map_wait"
    /\ LockAcquire(MapLock(reg[t].grp), ClientThread(t))
    /\ reg' = [reg EXCEPT ![t].pc = "map_locked"]
    /\ UNCHANGED <<storeVars, cbVars, rd, measVars>>

\* map[callid] = (path, func); the with block ends; return callid
RegisterMapInsert(t) ==
    /\ reg[t].pc = "map_locked"
    /\ InsertCallback(reg[t].callid, reg[t].path, reg[t].func, reg[t].grp)
    /\ reg' = [reg EXCEPT ![t] = [IdleClient EXCEPT !.got = Append(reg[t].got, reg[t].callid)]]
    /\ held' = LockRelease(held, MapLock(reg[t].grp))
    /\ UNCHANGED <<nextId, thread, stopEvent, loopPc, tasks, wk, ctl, invoked, fanout,
                   removes, rd, measVars>>
    /\ UNCHANGED storeVars

\* remove_callback(callid) by client thread t: with self._dset_callback_lock
ClientRemoveAcquire(t, callid) ==
    /\ reg[t].pc = "idle"
    /\ removes < MaxRemoves
    /\ removes' = removes + 1
    /\ LockAcquire("dset", ClientThread(t))
    /\ reg' = [reg EXCEPT ![t].pc = "rm_dset", ![t].callid = callid]
    /\ UNCHANGED <<dsetCb, grpCb, nextId, thread, stopEvent, loopPc, tasks, wk, ctl,
                   invoked, fanout, rd, measVars>>
    /\ UNCHANGED storeVars

ClientRemoveDset(t) ==
    /\ reg[t].pc = "rm_dset"
    /\ IF reg[t].callid \in Ids(dsetCb)
       THEN /\ dsetCb' = Pop(dsetCb, reg[t].callid)
            /\ reg' = [reg EXCEPT ![t].pc = "idle"]
            /\ held' = LockRelease(held, "dset")
       ELSE /\ reg' = [reg EXCEPT ![t].pc = "rm_grp_wait"]
            /\ held' = RemoveDsetUnlock(held)
            /\ UNCHANGED dsetCb
    /\ UNCHANGED <<grpCb, nextId, thread, stopEvent, loopPc, tasks, wk, ctl, invoked,
                   fanout, removes, rd, measVars>>
    /\ UNCHANGED storeVars

ClientRemoveGrpAcquire(t) ==
    /\ reg[t].pc = "rm_grp_wait"
    /\ LockAcquire("grp", ClientThread(t))
    /\ reg' = [reg EXCEPT ![t].pc = "rm_grp"]
    /\ UNCHANGED <<storeVars, cbVars, rd, measVars>>

ClientRemoveGrp(t) ==
    /\ reg[t].pc = "rm_grp"
    /\ grpCb' = Pop(grpCb, reg[t].callid)
    /\ reg' = [reg EXCEPT ![t].pc = "idle"]
    /\ held' = LockRelease(held, "grp")
    /\ UNCHANGED <<dsetCb, nextId, thread, stopEvent, loopPc, tasks, wk, ctl, invoked,
                   fanout, removes, rd, measVars>>
    /\ UNCHANGED storeVars

\* stop(): the test of self._thread and STOP_EVENT.set()
StopSignal ==
    /\ ctl.pc = "idle"
    /\ IF ~thread
       THEN /\ ctl' = [ctl EXCEPT !.n = @ + 1, !.op = "stop", !.err = "CallbackControllerError"]
            /\ UNCHANGED stopEvent
       ELSE /\ stopEvent' = TRUE
            /\ ctl' = [ctl EXCEPT !.n = @ + 1, !.op = "stop", !.err = "", !.pc = "dset_wait"]
    /\ UNCHANGED <<dsetCb, grpCb, nextId, thread, loopPc, tasks, wk, invoked, fanout, removes>>
    /\ UNCHANGED <<storeVars, clientVars, measVars, held>>

\* with self._dset_callback_lock
StopDsetAcquire ==
    /\ ctl.pc = "dset_wait"
    /\ LockAcquire("dset", CtlThread)
    /\ ctl' = [ctl EXCEPT !.pc = "dset_locked"]
    /\ UNCHANGED <<dsetCb, grpCb, nextId, thread, stopEvent, loopPc, tasks, wk, invoked,
                   fanout, removes>>
    /\ UNCHANGED <<storeVars, clientVars, measVars>>

\* for key in self._dset_callbacks.copy(): self._dset_callbacks.pop(key)
StopDsetClear ==
    /\ ctl.pc = "dset_locked"
    /\ dsetCb' = <<>>
    /\ held' = LockRelease(held, "dset")
    /\ ctl' = [ctl EXCEPT !.pc = "grp_wait"]
    /\ UNCHANGED <<grpCb, nextId, thread, stopEvent, loopPc, tasks, wk, invoked, fanout,
                   removes>>
    /\ UNCHANGED <<storeVars, clientVars, measVars>>

\* with self._grp_callback_lock
StopGrpAcquire ==
    /\ ctl.pc = "grp_wait"
    /\ LockAcquire("grp", CtlThread)
    /\ ctl' = [ctl EXCEPT !.pc = "grp_locked"]
    /\ UNCHANGED <<dsetCb, grpCb, nextId, thread, stopEvent, loopPc, tasks, wk, invoked,
                   fanout, removes>>
    /\ UNCHANGED <<storeVars, clientVars, measVars>>

\* for key in self._grp_callbacks.copy(): self._grp_callbacks.pop(), the
\* TypeError of a dict.pop without a key; the with block ends either way
StopGrpClear ==
    /\ ctl.pc = "grp_locked"
    /\ IF grpCb # <<>>
       THEN ctl' = [ctl EXCEPT !.err = "TypeError", !.pc = "idle"]
       ELSE ctl' = [ctl EXCEPT !.pc = "join"]
    /\ held' = LockRelease(held, "grp")
    /\ UNCHANGED <<dsetCb, grpCb, nextId, thread, stopEvent, loopPc, tasks, wk, invoked,
                   fanout, removes>>
    /\ UNCHANGED <<storeVars, clientVars, measVars>>

\* ------------------------------------------------------ measurement
Devices == 1..NDev
Meas == 1..MaxMeas

\* settings.MEASUREMENT_BASE_PATH
MEASUREMENT_BASE_PATH == <<"/", "measurement">>

\* os.path.join(a, b): b alone when b is absolute
PathJoin(a, b) == IF b # <<>> /\ b[1] = "/" THEN b ELSE a \o <<"/">> \o b

\* threading.Barrier(parties): arrived are the threads waiting in it,
\* draining the threads it has released and that have not left it yet
NewBarrier(parties) ==
    [parties |-> parties, arrived |-> {}, draining |-> {}, broken |-> FALSE]

\* mutant of EntryParties: a barrier for the device threads alone
EntryPartiesDevices(cnt) == cnt

\* self.entry_barrier = threading.Barrier(cnt + 1)
EntryParties(cnt) == cnt + 1

\* mutant of ExitParties: a barrier for the device threads alone
ExitPartiesDevices(cnt) == cnt

\* self.exit_barrier = threading.Barrier(cnt + 1)
ExitParties(cnt) == cnt + 1

\* Barrier.wait blocks new arrivals while the barrier drains
CanEnter(b) == b.draining = {}

\* Barrier.wait of party p: the last party to arrive releases all
BarrierArrive(b, p) ==
    IF Cardinality(b.arrived) + 1 = b.parties
    THEN [b EXCEPT !.arrived = {}, !.draining = b.arrived \cup {p}]
    ELSE [b EXCEPT !.arrived = @ \cup {p}]

\* a released party leaves wait()
BarrierLeave(b, p) == [b EXCEPT !.draining = @ \ {p}]

\* Barrier.reset(): threads waiting in the barrier get BrokenBarrierError;
\* nothing happens to a barrier that is empty or draining
BarrierReset(b) ==
    IF b.arrived # {} /\ b.draining = {}
    THEN [b EXCEPT !.arrived = {}, !.broken = TRUE]
    ELSE b

\* the party number of the thread that calls start and stop
Caller == 0

NoMeasurement ==
    [exists |-> FALSE, name |-> <<>>, devs |-> {}, running |-> FALSE, stopEv |-> FALSE,
     runs |-> 0, entry |-> NewBarrier(1), exit |-> NewBarrier(1)]

\* Measurement(devices, name) with an explicit name; runs counts the
\* returns of start()
NewMeasurement(devices, name) ==
    [exists |-> TRUE, name |-> PathJoin(MEASUREMENT_BASE_PATH, name), devs |-> devices,
     running |-> FALSE, stopEv |-> FALSE, runs |-> 0,
     entry |-> NewBarrier(EntryParties(Cardinality(devices))),
     exit |-> NewBarrier(ExitParties(Cardinality(devices)))]

\* a device without a measuring thread; setup, started, got, saved, stopped
\* are history: what the thread of the current or last run has done
NoThread == [pc |-> "none", setup |-> FALSE, started |-> FALSE, got |-> FALSE,
             saved |-> FALSE, stopped |-> FALSE]

\* device 2 is a driver without get_data (NotImplementedError)
HasGetData(d) == d # 2

IdleCaller == [pc |-> "idle", m |-> 0, n |-> 0, op |-> "", err |-> "", ret |-> 0,
               srv |-> FALSE]

\* InstrumentServer after start(): data server up, status thread running,
\* no measurement; late, lastName, lastDevs, lastRet are history
InservStarted ==
    [measurement |-> 0, ds |-> "up", status |-> "loop", sthread |-> TRUE,
     sstop |-> FALSE, sdone |-> FALSE, sapp |-> FALSE, late |-> {},
     lastName |-> <<>>, lastDevs |-> {}, lastRet |-> 0]

InitMeasure ==
    /\ ms = [m \in Meas |-> NoMeasurement]
    /\ dv = [x \in Meas \X Devices |-> NoThread]
    /\ cl = IdleCaller
    /\ ins = InservStarted

dataVars == <<storeVars, cbVars, clientVars, held, sm>>

\* InstrumentServer.measure(name, include) with an explicit name
Measure(name, devices) ==
    /\ cl.pc = "idle"
    /\ ins.ds = "up"
    /\ LET cur == ins.measurement
           same == /\ cur # 0
                   /\ name # <<>>
                   /\ name = ms[cur].name
                   /\ devices \ ms[cur].devs = {}
                   /\ ms[cur].devs \ devices = {}
           new == CHOOSE m \in Meas : ~ms[m].exists /\ \A o \in Meas : o < m => ms[o].exists
           c == [cl EXCEPT !.n = @ + 1, !.op = "measure", !.m = 0]
       IN IF same
          THEN /\ cl' = [c EXCEPT !.err = "", !.ret = cur]
               /\ ins' = [ins EXCEPT !.lastName = name, !.lastDevs = devices, !.lastRet = cur]
               /\ UNCHANGED ms
          ELSE IF cur # 0 /\ ms[cur].running
          THEN /\ cl' = [c EXCEPT !.err = "MeasurementError", !.ret = 0]
               /\ ins' = [ins EXCEPT !.lastName = name, !.lastDevs = devices, !.lastRet = 0]
               /\ UNCHANGED ms
          ELSE /\ \E m \in Meas : ~ms[m].exists
               /\ ms' = [ms EXCEPT ![new] = NewMeasurement(devices, name)]
               /\ cl' = [c EXCEPT !.err = "", !.ret = new]
               /\ ins' = [ins EXCEPT !.measurement = new, !.lastName = name,
                                     !.lastDevs = devices, !.lastRet = new]
    /\ UNCHANGED <<dv, dataVars>>

\* Measurement.start(): the test of _running, then one thread per device
MeasurementStart(m) ==
    /\ cl.pc = "idle"
    /\ ins.ds = "up"
    /\ ms[m].exists
    /\ IF ms[m].running
       THEN /\ cl' = [cl EXCEPT !.n = @ + 1, !.op = "start", !.m = m,
                                !.err = "MeasurementError"]
            /\ UNCHANGED dv
       ELSE /\ cl' = [cl EXCEPT !.n = @ + 1, !.op = "start", !.m = m, !.err = "",
                                !.pc = "entry_arrive"]
            /\ dv' = [x \in Meas \X Devices |->
                        IF x[1] = m /\ x[2] \in ms[m].devs
                        THEN [NoThread EXCEPT !.pc = "setup"] ELSE dv[x]]
    /\ UNCHANGED <<ms, ins, dataVars>>

\* self.entry_barrier.wait(), arriving
MeasurementStartArrive ==
    /\ cl.pc = "entry_arrive"
    /\ CanEnter(ms[cl.m].entry)
    /\ ms' = [ms EXCEPT ![cl.m].entry = BarrierArrive(@, Caller)]
    /\ cl' = [cl EXCEPT !.pc = "entry_wait"]
    /\ UNCHANGED <<dv, ins, dataVars>>

\* the barrier lets the caller go; self._running = True
MeasurementStartReturn ==
    /\ cl.pc = "entry_wait"
    /\ Caller \in ms[cl.m].entry.draining
    /\ ms' = [ms EXCEPT ![cl.m].entry = BarrierLeave(@, Caller), ![cl.m].running = TRUE,
                         ![cl.m].runs = @ + 1]
    /\ cl' = [cl EXCEPT !.pc = "idle"]
    /\ UNCHANGED <<dv, ins, dataVars>>

\* _measuring_thread: setup_measuring(); dgw = DataGateway(); dgw.connect()
MeasuringSetup(m, d) ==
    /\ dv[<<m, d>>].pc = "setup"
    /\ dv' = [dv EXCEPT ![<<m, d>>].pc = "entry_arrive", ![<<m, d>>].setup = TRUE]
    /\ UNCHANGED <<ms, cl, ins, dataVars>>

\* entry_barrier.wait(), arriving
MeasuringEntryArrive(m, d) ==
    /\ dv[<<m, d>>].pc = "entry_arrive"
    /\ CanEnter(ms[m].entry)
    /\ ms' = [ms EXCEPT ![m].entry = BarrierArrive(@, d)]
    /\ dv' = [dv EXCEPT ![<<m, d>>].pc = "entry_wait"]
    /\ UNCHANGED <<cl, ins, dataVars>>

\* the barrier lets the thread go
MeasuringEntryLeave(m, d) ==
    /\ dv[<<m, d>>].pc = "entry_wait"
    /\ d \in ms[m].entry.draining
    /\ ms' = [ms EXCEPT ![m].entry = BarrierLeave(@, d)]
    /\ dv' = [dv EXCEPT ![<<m, d>>].pc = "start"]
    /\ UNCHANGED <<cl, ins, dataVars>>

\* self.start_measuring()
MeasuringStart(m, d) ==
    /\ dv[<<m, d>>].pc = "start"
    /\ dv' = [dv EXCEPT ![<<m, d>>].pc = "loop", ![<<m, d>>].started = TRUE]
    /\ UNCHANGED <<ms, cl, ins, dataVars>>

\* dgw.append(...) of the status thread or of a measuring thread of
\* measurement who: it is late when the data server has closed its file
GatewayAppend(i, who) == [i EXCEPT !.late = IF i.ds = "down" THEN @ \cup {who} ELSE @]

\* while not stop_event.wait(delay): res = self.get_data(); self._save_data(...)
\* and the break of a driver without get_data
MeasuringLoop(m, d) ==
    /\ dv[<<m, d>>].pc = "loop"
    /\ IF ms[m].stopEv \/ ~HasGetData(d)
       THEN /\ dv' = [dv EXCEPT ![<<m, d>>].pc = "last"]
            /\ UNCHANGED ins
       ELSE /\ dv' = [dv EXCEPT ![<<m, d>>].got = TRUE]
            /\ ins' = GatewayAppend(ins, m)
    /\ UNCHANGED <<ms, cl, dataVars>>

\* save any remaining data: get_data() and _save_data once more
MeasuringLast(m, d) ==
    /\ dv[<<m, d>>].pc = "last"
    /\ dv' = [dv EXCEPT ![<<m, d>>].pc = "stop", ![<<m, d>>].got = @ \/ HasGetData(d),
                         ![<<m, d>>].saved = TRUE]
    /\ ins' = IF HasGetData(d) THEN GatewayAppend(ins, m) ELSE ins
    /\ UNCHANGED <<ms, cl, dataVars>>

\* self.stop_measuring(); dgw.disconnect()
MeasuringStop(m, d) ==
    /\ dv[<<m, d>>].pc = "stop"
    /\ dv' = [dv EXCEPT ![<<m, d>>].pc = "exit_arrive", ![<<m, d>>].stopped = TRUE]
    /\ UNCHANGED <<ms, cl, ins, dataVars>>

\* exit_barrier.wait(), arriving
MeasuringExitArrive(m, d) ==
    /\ dv[<<m, d>>].pc = "exit_arrive"
    /\ CanEnter(ms[m].exit)
    /\ ms' = [ms EXCEPT ![m].exit = BarrierArrive(@, d)]
    /\ dv' = [dv EXCEPT ![<<m, d>>].pc = "exit_wait"]
    /\ UNCHANGED <<cl, ins, dataVars>>

\* the barrier lets the thread go, and the thread ends; a thread of the next
\* run may have been started for the device by then
MeasuringExitLeave(m, d) ==
    /\ d \in ms[m].exit.draining
    /\ ms' = [ms EXCEPT ![m].exit = BarrierLeave(@, d)]
    /\ dv' = [dv EXCEPT ![<<m, d>>].pc = IF @ = "exit_wait" THEN "none" ELSE @]
    /\ UNCHANGED <<cl, ins, dataVars>>

\* Measurement.stop(): the test of _running and STOP_EVENT.set()
MeasurementStop(m) ==
    /\ cl.pc = "idle"
    /\ ms[m].exists
    /\ IF ~ms[m].running
       THEN /\ cl' = [cl EXCEPT !.n = @ + 1, !.op = "stop", !.m = m,
                                !.err = "MeasurementError"]
            /\ UNCHANGED ms
       ELSE /\ cl' = [cl EXCEPT !.n = @ + 1, !.op = "stop", !.m = m, !.err = "",
                                !.pc = "exit_arrive"]
            /\ ms' = [ms EXCEPT ![m].stopEv = TRUE]
    /\ UNCHANGED <<dv, ins, dataVars>>

\* self.exit_barrier.wait(), arriving
MeasurementStopArrive ==
    /\ cl.pc = "exit_arrive"
    /\ CanEnter(ms[cl.m].exit)
    /\ ms' = [ms EXCEPT ![cl.m].exit = BarrierArrive(@, Caller)]
    /\ cl' = [cl EXCEPT !.pc = "exit_wait"]
    /\ UNCHANGED <<dv, ins, dataVars>>

\* the barrier lets the caller go; STOP_EVENT.clear(), both barriers reset,
\* self._running = False; InstrumentServer.stop goes on from here
MeasurementStopReturn ==
    /\ cl.pc = "exit_wait"
    /\ Caller \in ms[cl.m].exit.draining
    /\ ms' = [ms EXCEPT ![cl.m] =
                 [@ EXCEPT !.stopEv = FALSE,
                           !.entry = BarrierReset(@),
                           !.exit = BarrierReset(BarrierLeave(@, Caller)),
                           !.running = FALSE]]
    /\ cl' = [cl EXCEPT !.pc = IF cl.srv THEN "srv_status" ELSE "idle"]
    /\ UNCHANGED <<dv, ins, dataVars>>

\* _status_measurement_thread: while not stop_event.wait(delay): the
\* statuses are collected and appended
StatusLoop ==
    /\ ins.status = "loop"
    /\ IF ins.sstop
       THEN ins' = [ins EXCEPT !.status = "end"]
       ELSE ins' = [GatewayAppend(ins, "status") EXCEPT !.sapp = TRUE]
    /\ UNCHANGED <<ms, dv, cl, dataVars>>

\* dgw.disconnect(); stop_event.clear(); STATUS_THREAD_STOP_EVENT.set()
StatusEnd ==
    /\ ins.status = "end"
    /\ ins' = [ins EXCEPT !.status = "done", !.sstop = FALSE, !.sdone = TRUE]
    /\ UNCHANGED <<ms, dv, cl, dataVars>>

\* InstrumentServer.stop(): if self._measurement and self._measurement._running:
\* self._measurement.stop()
InservStop ==
    /\ cl.pc = "idle"
    /\ ins.ds = "up"
    /\ LET cur == ins.measurement
           c == [cl EXCEPT !.n = @ + 1, !.op = "server_stop", !.err = "", !.srv = TRUE]
       IN IF cur # 0 /\ ms[cur].running
          THEN /\ cl' = [c EXCEPT !.m = cur, !.pc = "exit_arrive"]
               /\ ms' = [ms EXCEPT ![cur].stopEv = TRUE]
          ELSE /\ cl' = [c EXCEPT !.pc = "srv_status"]
               /\ UNCHANGED ms
    /\ UNCHANGED <<dv, ins, dataVars>>

\* self._status_measurement.stop(): STOP_EVENT.set()
InservStopStatus ==
    /\ cl.pc = "srv_status"
    /\ ins' = [ins EXCEPT !.sstop = TRUE]
    /\ cl' = [cl EXCEPT !.pc = "srv_status_wait"]
    /\ UNCHANGED <<ms, dv, dataVars>>

\* STATUS_THREAD_STOP_EVENT.wait() and clear(); self._status_measurement = None
InservStopStatusJoin ==
    /\ cl.pc = "srv_status_wait"
    /\ ins.sdone
    /\ ins' = [ins EXCEPT !.sdone = FALSE, !.sthread = FALSE]
    /\ cl' = [cl EXCEPT !.pc = "srv_data"]
    /\ UNCHANGED <<ms, dv, dataVars>>

\* self._data_server.stop(): DataServer.stop closes the hdf5 file first
InservStopData ==
    /\ cl.pc = "srv_data"
    /\ ins' = [ins EXCEPT !.ds = "down"]
    /\ cl' = [cl EXCEPT !.pc = "idle", !.srv = FALSE]
    /\ UNCHANGED <<ms, dv, dataVars>>

\* ------------------------------------------------ status measurement
otherVars == <<storeVars, cbVars, clientVars, held, ms, dv, cl, ins>>

StatusDevices == 1..NStatusDev

\* StatusMeasurement(devices) before start().  conn is dgw._connection of
\* the thread's gateway: "none" (None), "up", or "lost" (a connection whose
\* stream is dead); server is the data server; keys and cache are the dict
\* data_cache in its key order, todo what is left of list(data_cache.keys());
\* log is what the data server appended per device; collected, cycles,
\* outages and the caller's fields are history
NoStatusMeasurement ==
    [thread |-> FALSE, pc |-> "none", stopEv |-> FALSE, doneEv |-> FALSE,
     conn |-> "none", server |-> "up",
     keys |-> <<>>, cache |-> [d \in StatusDevices |-> <<>>], todo |-> <<>>,
     log |-> [d \in StatusDevices |-> <<>>], collected |-> {},
     cycles |-> 0, outages |-> 0,
     cpc |-> "idle", cn |-> 0, cop |-> "", cerr |-> ""]

\* StatusMeasurement.start(): a new thread with a new gateway and cache
StatusMeasurementStart ==
    /\ sm.cpc = "idle"
    /\ IF sm.thread
       THEN sm' = [sm EXCEPT !.cn = @ + 1, !.cop = "start",
                             !.cerr = "StatusMeasurementError"]
       ELSE sm' = [sm EXCEPT !.cn = @ + 1, !.cop = "start", !.cerr = "",
                             !.thread = TRUE, !.pc = "connect", !.conn = "none",
                             !.keys = <<>>, !.cache = [d \in StatusDevices |-> <<>>],
                             !.todo = <<>>, !.collected = {}]
    /\ UNCHANGED otherVars

\* dgw = DataGateway(); dgw.connect(): BaseGatewayError ends the thread
StatusThreadConnect ==
    /\ sm.pc = "connect"
    /\ sm' = IF sm.server = "up"
             THEN [sm EXCEPT !.conn = "up", !.pc = "wait"]
             ELSE [sm EXCEPT !.pc = "dead"]
    /\ UNCHANGED otherVars

\* while not stop_event.wait(delay):
StatusThreadWait ==
    /\ sm.pc = "wait"
    /\ sm.stopEv \/ sm.cycles < MaxCycles
    /\ sm' = [sm EXCEPT !.pc = IF sm.stopEv THEN "disconnect" ELSE "collect"]
    /\ UNCHANGED otherVars

\* mutant of Concatenate: the new sample is put in front of the cached ones
ConcatenateFront(cached, sample) == <<sample>> \o cached

\* np.concatenate((data_cache[name], sample))
Concatenate(cached, sample) == cached \o <<sample>>

\* the keys of data_cache after the samples of a cycle were stored: a new
\* key goes to the end
KeysAfter(keys) ==
    keys \o SelectSeq([i \in 1..NStatusDev |-> i], LAMBDA d : \A j \in 1..Len(keys) : keys[j] # d)

\* for name, (dev, _) in self._devices.items(): the status of every device
\* is stored in the cache; then the branch on dgw._connection
StatusThreadCollect ==
    /\ sm.pc = "collect"
    /\ LET c == sm.cycles + 1
       IN sm' = [sm EXCEPT !.cycles = c,
                           !.cache = [d \in StatusDevices |-> Concatenate(sm.cache[d], <<c, d>>)],
                           !.keys = KeysAfter(sm.keys),
                           !.collected = @ \cup {<<c, d>> : d \in StatusDevices},
                           !.todo = IF sm.conn = "none" THEN <<>> ELSE KeysAfter(sm.keys),
                           !.pc = IF sm.conn = "none" THEN "reconnect" ELSE "send"]
    /\ UNCHANGED otherVars

\* if not dgw._connection: dgw.connect(); except BaseGatewayError: continue
StatusThreadReconnect ==
    /\ sm.pc = "reconnect"
    /\ sm' = IF sm.server = "up"
             THEN [sm EXCEPT !.conn = "up", !.pc = "send", !.todo = sm.keys]
             ELSE [sm EXCEPT !.pc = "wait"]
    /\ UNCHANGED otherVars

\* the data server appends the cached samples of device d
ServerAppend(s, d) == [s EXCEPT !.log[d] = @ \o s.cache[d]]

\* data_cache.pop(name)
CachePop(s, d) ==
    [s EXCEPT !.cache[d] = <<>>,
              !.keys = SelectSeq(@, LAMBDA k : k # d),
              !.todo = Tail(@)]

\* for name in list(data_cache.keys()): dgw.append(...); data_cache.pop(name).
\* BaseGateway.__getattr__ answers the EOFError of a dead connection with
\* reconnect(), whose BaseGatewayError leaves the loop (break)
StatusThreadSend ==
    /\ sm.pc = "send"
    /\ IF sm.todo = <<>>
       THEN sm' = [sm EXCEPT !.pc = "wait"]
       ELSE LET d == Head(sm.todo)
            IN IF sm.conn = "up" \/ sm.server = "up"
               THEN sm' = CachePop(ServerAppend([sm EXCEPT !.conn = "up"], d), d)
               ELSE sm' = [sm EXCEPT !.conn = "none", !.todo = <<>>, !.pc = "wait"]
    /\ UNCHANGED otherVars

\* the connection dies while the append call is under way: the call raises
\* EOFError, which the loop does not catch, and the thread ends; the data
\* server has made the append or has not
StatusThreadSendLost ==
    /\ sm.pc = "send"
    /\ sm.todo # <<>>
    /\ sm.conn = "up"
    /\ sm.outages < MaxOutages
    /\ \E made \in BOOLEAN : \E srv \in {"up", "down"} :
          sm' = [(IF made THEN ServerAppend(sm, Head(sm.todo)) ELSE sm)
                    EXCEPT !.conn = "lost", !.server = srv, !.pc = "dead",
                           !.outages = @ + 1]
    /\ UNCHANGED otherVars

\* the connection to the data server is lost, with the data server or not
ConnectionLost ==
    /\ sm.outages < MaxOutages
    /\ sm.server = "up"
    /\ \E srv \in {"up", "down"} :
          sm' = [sm EXCEPT !.conn = IF @ = "up" THEN "lost" ELSE @, !.server = srv,
                           !.outages = @ + 1]
    /\ UNCHANGED otherVars

\* the data server is started again
ServerBack ==
    /\ sm.server = "down"
    /\ sm' = [sm EXCEPT !.server = "up"]
    /\ UNCHANGED otherVars

\* dgw.disconnect(): self._connection.close() raises AttributeError when
\* _connection is None, and the thread ends
StatusThreadDisconnect ==
    /\ sm.pc = "disconnect"
    /\ sm' = IF sm.conn = "none"
             THEN [sm EXCEPT !.pc = "dead"]
             ELSE [sm EXCEPT !.conn = "none", !.pc = "end"]
    /\ UNCHANGED otherVars

\* stop_event.clear(); self.STATUS_THREAD_STOP_EVENT.set()
StatusThreadEnd ==
    /\ sm.pc = "end"
    /\ sm' = [sm EXCEPT !.stopEv = FALSE, !.doneEv = TRUE, !.pc = "done"]
    /\ UNCHANGED otherVars

\* StatusMeasurement.stop(): the test of _thread and STOP_EVENT.set()
StatusMeasurementStop ==
    /\ sm.cpc = "idle"
    /\ IF ~sm.thread
       THEN sm' = [sm EXCEPT !.cn = @ + 1, !.cop = "stop",
                             !.cerr = "StatusMeasurementError"]
       ELSE sm' = [sm EXCEPT !.cn = @ + 1, !.cop = "stop", !.cerr = "",
                             !.stopEv = TRUE, !.cpc = "wait"]
    /\ UNCHANGED otherVars

\* STATUS_THREAD_STOP_EVENT.wait() returns; clear(); self._thread = None
StatusMeasurementStopReturn ==
    /\ sm.cpc = "wait"
    /\ sm.doneEv
    /\ sm' = [sm EXCEPT !.doneEv = FALSE, !.thread = FALSE, !.cpc = "idle"]
    /\ UNCHANGED otherVars

\* ----------------------------------------------------------------- Init
\* CallbackController() and HDF5FileInterface(filename, controller.queue) on
\* a new file: nothing stored, nothing registered, no thread
Init ==
    /\ file = [p \in AllPaths |-> NONE]
    /\ lock = 0
    /\ queue = <<>>
    /\ wpc = [w \in Writers |-> "idle"]
    /\ wcall = [w \in Writers |-> NoCall]
    /\ ncalls = 0
    /\ dsetCb = <<>>
    /\ grpCb = <<>>
    /\ nextId = 1
    /\ thread = FALSE
    /\ stopEvent = FALSE
    /\ loopPc = "done"
    /\ tasks = <<>>
    /\ wk = [k \in Workers |-> IdleWorker]
    /\ ctl = [pc |-> "idle", n |-> 0, err |-> "", op |-> ""]
    /\ invoked = [x \in {} |-> 0]
    /\ fanout = [x \in {} |-> 0]
    /\ removes = 0
    /\ reg = [t \in RegClients |-> IdleClient]
    /\ rd = NoRead
    /\ held = NoLocks
    /\ InitMeasure
    /\ sm = NoStatusMeasurement

\* ------------------------------------------------------- specifications
\* --- N threads, one row each, the same new path, the same record type
OneRow == {ArrayOf(1, 3), DictOfScalars(<<"x", "y">>), DictOfLists(<<"x", "y">>, <<1, 1>>)}

SamePathCall(w) ==
    /\ wcall[w].st = "none"
    /\ \A j \in Writers : j < w => wcall[j].st # "none"
    /\ \E d \in OneRow :
          /\ \A o \in Writers : wcall[o].st # "none" => wcall[o].arr.kind = d.kind
          /\ AppendCall(w, P_a_b, d, NoKwargs)

NextSamePath ==
    \E w \in Writers :
        \/ SamePathCall(w)
        \/ AppendAcquire(w)
        \/ AppendLookup(w)
        \/ AppendCreate(w)
        \/ AppendResize(w)
        \/ AppendWrite(w)
        \/ AppendPut(w)

SpecSamePath == Init /\ [][NextSamePath]_vars

\* --- the store alone: any appends, nobody drains the queue
\* (path, arr, kwargs) of the append calls made
StoreInputs ==
    {<<P_raw, ArrayOf(1, 3), NoKwargs>>,
     <<P_raw, ArrayOf(2, 4), NoKwargs>>,
     <<P_raw, ArrayOf(0, 3), NoKwargs>>,
     <<P_raw, DictOfScalars(<<"x", "y">>), NoKwargs>>,
     <<P_a_b, DictOfScalars(<<"x", "y">>), [k \in {"unit"} |-> "V"]>>,
     <<P_a_b, DictOfScalars(<<"x">>), NoKwargs>>,
     <<P_a_b, DictOfScalars(<<"z", "y", "x">>), NoKwargs>>,
     <<P_a_b, DictOfScalars(<<>>), NoKwargs>>,
     <<P_a_b, DictOfLists(<<"x", "y">>, <<2, 2>>), NoKwargs>>,
     <<P_a_b, DictOfLists(<<"x", "y">>, <<0, 0>>), NoKwargs>>,
     <<P_a_b, DictOfLists(<<"x", "y">>, <<2, 1>>), NoKwargs>>,
     <<P_a_b, DictOfScalars(<<"x", "y">>), [k \in {"created_on"} |-> "never"]>>}

StoreCall(w) ==
    /\ FirstIdle(w)
    /\ ncalls < MaxCalls
    /\ \E in \in StoreInputs : AppendCall(w, in[1], in[2], in[3])

NextStore ==
    \E w \in 1..NWriters :
        \/ StoreCall(w)
        \/ AppendStep(w)

SpecStore == Init /\ [][NextStore]_vars

\* --- the data server at work: writers, the callback thread and its pool,
\* --- clients that register and remove callbacks, start and stop
AppendInputs ==
    {<<P_a_b_c, DictOfScalars(<<"x", "y">>), NoKwargs>>,
     <<P_ab, DictOfScalars(<<"x", "y">>), NoKwargs>>}

\* (path, func, is_group) of the register_callback calls made
RegisterInputs ==
    {<<P_a, "ok", TRUE>>, <<P_a, "eof", TRUE>>,
     <<P_a_b, "ok", FALSE>>, <<P_a_b_c, "ok", FALSE>>, <<P_a_b_c, "eof", FALSE>>}

\* the thread that serves the measuring client's connection
ServerWriters == {1}

ServerCall(w) ==
    /\ FirstIdle(w)
    /\ ncalls < MaxServerCalls
    /\ \E in \in AppendInputs : AppendCall(w, in[1], in[2], in[3])

\* clients subscribe before the measurement appends
Register ==
    /\ ncalls = 0
    /\ nextId <= MaxSubs
    /\ \E in \in RegisterInputs : RegisterCallback(in[1], in[2], in[3])

Remove == \E callid \in 1..MaxSubs : RemoveCallback(callid)

\* DataServer.stop(): self._callback_thread.stop()
ServerStop == ctl.n < MaxCtl /\ Stop

Next ==
    \/ \E w \in ServerWriters :
          \/ ServerCall(w)
          \/ AppendAcquire(w)
          \/ AppendLookup(w)
          \/ AppendCreate(w)
          \/ AppendResize(w)
          \/ AppendWrite(w)
          \/ AppendPut(w)
    \/ \E k \in Workers :
          \/ WorkerTake(k)
          \/ WorkerSnapshot(k)
          \/ WorkerCall(k)
          \/ WorkerExcept(k)
    \/ LoopCheck
    \/ LoopGet
    \/ LoopTimeout
    \/ LoopClose
    \/ Register
    \/ Remove
    \/ ServerStop
    \/ StopJoin

\* DataServer.start(): CallbackController().start(), then
\* HDF5FileInterface(filename, controller.queue)
InitServer ==
    /\ file = [p \in AllPaths |-> NONE]
    /\ lock = 0
    /\ queue = <<>>
    /\ wpc = [w \in Writers |-> "idle"]
    /\ wcall = [w \in Writers |-> NoCall]
    /\ ncalls = 0
    /\ dsetCb = <<>>
    /\ grpCb = <<>>
    /\ nextId = 1
    /\ thread = TRUE
    /\ stopEvent = FALSE
    /\ loopPc = "check"
    /\ tasks = <<>>
    /\ wk = [k \in Workers |-> IdleWorker]
    /\ ctl = [pc |-> "idle", n |-> 0, err |-> "", op |-> ""]
    /\ invoked = [x \in {} |-> 0]
    /\ fanout = [x \in {} |-> 0]
    /\ removes = 0
    /\ reg = [t \in RegClients |-> IdleClient]
    /\ rd = NoRead
    /\ held = NoLocks
    /\ InitMeasure
    /\ sm = NoStatusMeasurement

Spec == InitServer /\ [][Next]_vars

\* --- subscribers that hang or are gone, a callback thread that is started
\* --- late or never, and a writer that goes on appending
\* the append calls made, in this order
HangAppendInputs ==
    <<<<P_a_b_c, DictOfScalars(<<"x", "y">>), NoKwargs>>,
      <<P_ab, DictOfScalars(<<"x", "y">>), NoKwargs>>>>

\* the register_callback calls made, in this order
HangRegisterInputs ==
    <<<<P_a_b_c, "eof", FALSE>>, <<P_a, "hang", TRUE>>, <<P_a_b_c, "hang", FALSE>>,
      <<P_ab, "hang", FALSE>>>>

HangCall(w) ==
    /\ FirstIdle(w)
    /\ ncalls < MaxHangCalls
    /\ LET in == HangAppendInputs[(ncalls % Len(HangAppendInputs)) + 1]
       IN AppendCall(w, in[1], in[2], in[3])

HangRegister ==
    /\ ncalls = 0
    /\ nextId <= MaxHangSubs
    /\ nextId <= Len(HangRegisterInputs)
    /\ LET in == HangRegisterInputs[nextId]
       IN RegisterCallback(in[1], in[2], in[3])

\* the callback thread is started late, or never
HangStart == ctl.n < MaxCtl /\ Start

NextHang ==
    \/ \E w \in ServerWriters :
          \/ HangCall(w)
          \/ AppendAcquire(w)
          \/ AppendLookup(w)
          \/ AppendCreate(w)
          \/ AppendResize(w)
          \/ AppendWrite(w)
          \/ AppendPut(w)
    \/ \E k \in Workers :
          \/ WorkerTake(k)
          \/ WorkerSnapshot(k)
          \/ WorkerCall(k)
          \/ WorkerExcept(k)
    \/ LoopCheck
    \/ LoopGet
    \/ LoopTimeout
    \/ HangRegister
    \/ HangStart

SpecHang == Init /\ [][NextHang]_vars

\* one step of the _callback_thread loop while nobody stops it
LoopRun ==
    \/ LoopCheck
    \/ LoopGet
    \/ LoopTimeout

\* the same, with a callback thread that is scheduled again and again
SpecHangLive == SpecHang /\ WF_vars(LoopRun)

\* --- the running data server drains its queue until it is stopped; the
\* --- callback thread, once started, is scheduled again and again
DrainCall(w) ==
    /\ FirstIdle(w)
    /\ ncalls < MaxDrainCalls
    /\ LET in == HangAppendInputs[(ncalls % Len(HangAppendInputs)) + 1]
       IN AppendCall(w, in[1], in[2], in[3])

\* one step of the _callback_thread loop
LoopStep ==
    \/ LoopCheck
    \/ LoopGet
    \/ LoopTimeout
    \/ LoopClose

NextDrain ==
    \/ \E w \in ServerWriters :
          \/ DrainCall(w)
          \/ AppendAcquire(w)
          \/ AppendLookup(w)
          \/ AppendCreate(w)
          \/ AppendResize(w)
          \/ AppendWrite(w)
          \/ AppendPut(w)
    \/ \E k \in Workers :
          \/ WorkerTake(k)
          \/ WorkerSnapshot(k)
          \/ WorkerCall(k)
          \/ WorkerExcept(k)
    \/ LoopStep
    \/ HangRegister
    \/ ServerStop
    \/ StopJoin

SpecDrain == InitServer /\ [][NextDrain]_vars /\ WF_vars(LoopStep)

\* --- client threads that register callbacks at the same time, and remove them
ClientRegister(t) ==
    /\ nextId <= MaxRegisters
    /\ \E in \in RegisterInputs : RegisterBegin(t, in[1], in[2], in[3])

ClientRemove == \E callid \in 1..MaxRegisters : RemoveCallback(callid)

NextRegister ==
    \/ \E t \in RegClients :
          \/ ClientRegister(t)
          \/ RegisterInsert(t)
    \/ ClientRemove

SpecRegister == Init /\ [][NextRegister]_vars

\* --- readers next to writers: appends, and get_data / get / get_keys calls
ReadAppendInputs ==
    {<<P_a_b, DictOfScalars(<<"x", "y">>), NoKwargs>>,
     <<P_raw, ArrayOf(1, 3), NoKwargs>>,
     <<P_raw, ArrayOf(2, 4), NoKwargs>>}

ReadPaths == {P_a, P_a_b, P_raw}

ReadCall(w) ==
    /\ FirstIdle(w)
    /\ ncalls < MaxCalls
    /\ \E in \in ReadAppendInputs : AppendCall(w, in[1], in[2], in[3])

ReaderGetData ==
    /\ rd.n < MaxReads
    /\ \E path \in ReadPaths : \E field \in {"", "x"} : GetData(path, field)

ReaderGet ==
    /\ rd.n < MaxReads
    /\ \E path \in ReadPaths : Get(path)

ReaderGetKeys ==
    /\ rd.n < MaxReads
    /\ \E path \in ReadPaths : GetKeys(path)

NextRead ==
    \/ \E w \in 1..NWriters :
          \/ ReadCall(w)
          \/ AppendAcquire(w)
          \/ AppendLookup(w)
          \/ AppendCreate(w)
          \/ AppendResize(w)
          \/ AppendWrite(w)
          \/ AppendPut(w)
    \/ ReaderGetData
    \/ ReaderGet
    \/ ReaderGetKeys

SpecRead == Init /\ [][NextRead]_vars

\* --- a controller that is started and stopped again and again, with
\* --- callbacks registered in between
LifeStart == ctl.n < MaxLifeCalls /\ Start

LifeStop == ctl.n < MaxLifeCalls /\ Stop

LifeRegister ==
    /\ nextId <= MaxSubs
    /\ \E in \in RegisterInputs : RegisterCallback(in[1], in[2], in[3])

NextLife ==
    \/ LifeStart
    \/ LifeStop
    \/ StopJoin
    \/ LoopCheck
    \/ LoopTimeout
    \/ LoopClose
    \/ LifeRegister

SpecLife == Init /\ [][NextLife]_vars

\* --- the threads of the data server step by step through their with
\* --- blocks: writers, pool workers, registering and removing clients, stop
\* the register_callback calls made, in this order
LockRegisterInputs ==
    <<<<P_a_b_c, "eof", FALSE>>, <<P_a, "hang", TRUE>>, <<P_a, "eof", TRUE>>>>

\* register_callback calls begun so far
LockRegistered == nextId - 1 + Cardinality({c \in RegClients : reg[c].pc = "idgen"})

\* the append calls made, in this order
LockAppendInputs ==
    <<<<P_a_b_c, DictOfScalars(<<"x", "y">>), NoKwargs>>,
      <<P_a_b_c, DictOfScalars(<<"x", "y">>), NoKwargs>>>>

\* the client thread that registers callbacks and removes them again
LockClients == {1}

LockCall(w) ==
    /\ FirstIdle(w)
    /\ ncalls < MaxLockCalls
    /\ nextId > 2
    /\ LET in == LockAppendInputs[(ncalls % Len(LockAppendInputs)) + 1]
       IN AppendCall(w, in[1], in[2], in[3])

\* the clients of a measurement subscribe before it appends; one more
\* callback is registered at any time
LockRegister(t) ==
    /\ LockRegistered < MaxLockSubs
    /\ LockRegistered < Len(LockRegisterInputs)
    /\ LockRegistered < 2 => ncalls = 0
    /\ LET in == LockRegisterInputs[LockRegistered + 1]
       IN RegisterIdAcquire(t, in[1], in[2], in[3])

\* the client removes the callback it registered last
LockRemove(t) ==
    /\ reg[t].got # <<>>
    /\ ClientRemoveAcquire(t, reg[t].got[Len(reg[t].got)])

LockStop == ctl.n < MaxCtl /\ StopSignal

NextLocks ==
    \/ \E w \in ServerWriters :
          \/ LockCall(w)
          \/ AppendAcquire(w)
          \/ AppendLookup(w)
          \/ AppendCreate(w)
          \/ AppendResize(w)
          \/ AppendWrite(w)
          \/ AppendPut(w)
    \/ \E k \in Workers :
          \/ WorkerTake(k)
          \/ CallCallbackAcquire(k)
          \/ CallCallbackSnapshot(k)
          \/ WorkerCall(k)
          \/ ExceptGrpPop(k)
          \/ ExceptRemoveAcquire(k)
          \/ ExceptRemoveDset(k)
          \/ ExceptRemoveGrpAcquire(k)
          \/ ExceptRemoveGrp(k)
    \/ LoopCheck
    \/ LoopGet
    \/ LoopTimeout
    \/ LoopClose
    \/ \E t \in LockClients :
          \/ LockRegister(t)
          \/ RegisterId(t)
          \/ RegisterMapAcquire(t)
          \/ RegisterMapInsert(t)
          \/ LockRemove(t)
          \/ ClientRemoveDset(t)
          \/ ClientRemoveGrpAcquire(t)
          \/ ClientRemoveGrp(t)
    \/ LockStop
    \/ StopDsetAcquire
    \/ StopDsetClear
    \/ StopGrpAcquire
    \/ StopGrpClear
    \/ StopJoin

SpecLocks == InitServer /\ [][NextLocks]_vars

\* --- the instrument server: measurements are asked for, started and
\* --- stopped by one calling thread, and the server is stopped in the end
MeasureNames == {<<"run">>, <<"/", "run">>}

MeasureDevices == {{1}, {1, 2}}

InservMeasure ==
    /\ cl.n < MaxInsCalls
    /\ \E name \in MeasureNames : \E devices \in MeasureDevices : Measure(name, devices)

InservMeasurementStart == cl.n < MaxInsCalls /\ \E m \in Meas : MeasurementStart(m)

InservMeasurementStop == cl.n < MaxInsCalls /\ \E m \in Meas : MeasurementStop(m)

InservServerStop == cl.n < MaxInsCalls /\ InservStop

NextInserv ==
    \/ InservMeasure
    \/ InservMeasurementStart
    \/ MeasurementStartArrive
    \/ MeasurementStartReturn
    \/ InservMeasurementStop
    \/ MeasurementStopArrive
    \/ MeasurementStopReturn
    \/ \E m \in Meas : \E d \in Devices :
          \/ MeasuringSetup(m, d)
          \/ MeasuringEntryArrive(m, d)
          \/ MeasuringEntryLeave(m, d)
          \/ MeasuringStart(m, d)
          \/ MeasuringLoop(m, d)
          \/ MeasuringLast(m, d)
          \/ MeasuringStop(m, d)
          \/ MeasuringExitArrive(m, d)
          \/ MeasuringExitLeave(m, d)
    \/ StatusLoop
    \/ StatusEnd
    \/ InservServerStop
    \/ InservStopStatus
    \/ InservStopStatusJoin
    \/ InservStopData

SpecInserv == Init /\ [][NextInserv]_vars

\* --- a status measurement that is started and stopped while the
\* --- connection to the data server comes and goes
StatusStartCall == sm.cn < MaxStatusCalls /\ StatusMeasurementStart

StatusStopCall == sm.cn < MaxStatusCalls /\ StatusMeasurementStop

StatusThreadStep ==
    \/ StatusThreadConnect
    \/ StatusThreadWait
    \/ StatusThreadCollect
    \/ StatusThreadReconnect
    \/ StatusThreadSend
    \/ StatusThreadDisconnect
    \/ StatusThreadEnd

NextStatus ==
    \/ StatusStartCall
    \/ StatusStopCall
    \/ StatusMeasurementStopReturn
    \/ StatusThreadStep
    \/ StatusThreadSendLost
    \/ ConnectionLost
    \/ ServerBack

SpecStatus == Init /\ [][NextStatus]_vars

\* the status thread and the return of stop() are not held up for ever
SpecStatusLive ==
    SpecStatus /\ WF_vars(StatusThreadStep) /\ WF_vars(StatusMeasurementStopReturn)

\* --- a gui client that subscribes through its GuiDataGateway, next to
\* --- writers
GuiRegister ==
    /\ rd.n < MaxReads
    /\ \E path \in ReadPaths : \E func \in {"ok"} : \E isGroup \in BOOLEAN :
          \E allow \in BOOLEAN : GuiRegisterCallback(path, func, isGroup, allow)

NextGui ==
    \/ \E w \in 1..NWriters :
          \/ ReadCall(w)
          \/ AppendAcquire(w)
          \/ AppendLookup(w)
          \/ AppendCreate(w)
          \/ AppendResize(w)
          \/ AppendWrite(w)
          \/ AppendPut(w)
    \/ GuiRegister

SpecGui == Init /\ [][NextGui]_vars

\* --- the running data server with clients that subscribe at any time,
\* --- before, between and after the appends
LateRegister ==
    /\ nextId <= MaxSubs
    /\ \E path \in {P_a_b_c} : RegisterCallback(path, "ok", FALSE)

NextLate ==
    \/ \E w \in ServerWriters :
          \/ ServerCall(w)
          \/ AppendAcquire(w)
          \/ AppendLookup(w)
          \/ AppendCreate(w)
          \/ AppendResize(w)
          \/ AppendWrite(w)
          \/ AppendPut(w)
    \/ \E k \in Workers :
          \/ WorkerTake(k)
          \/ WorkerSnapshot(k)
          \/ WorkerCall(k)
    \/ LoopCheck
    \/ LoopGet
    \/ LoopTimeout
    \/ LateRegister

SpecLate == InitServer /\ [][NextLate]_vars

\* ------------------------------------------------------------- claims
Quiescent == \A w \in Writers : wpc[w] = "idle"

Called == {w \in Writers : wcall[w].st # "none"}

\* the notifications on the queue that append call id put there
NotifsOf(id) == SelectSeq(queue, LAMBDA n : n.call = id)

Occurrences(rows, r) == Cardinality({i \in 1..Len(rows) : rows[i] = r})

\* C1: N threads each append one row to the same new path: at no time are
\* two of them creating the dataset, and once all have ended none has raised,
\* exactly one has created the dataset, the others have extended it, and the
\* dataset holds N rows, the row of every thread exactly once.
C1_SamePathAppend ==
    /\ Cardinality({w \in Writers : wpc[w] = "create" \/ wcall[w].op = "create"}) <= 1
    /\ (Quiescent /\ Called # {}) =>
          /\ \A w \in Called : wcall[w].st = "ret"
          /\ Cardinality({w \in Called : wcall[w].op = "create"}) = 1
          /\ Cardinality({w \in Called : wcall[w].op = "extend"}) = Cardinality(Called) - 1
          /\ file[P_a_b] # NONE
          /\ Len(file[P_a_b].rows) = Cardinality(Called)
          /\ \A w \in Called : Occurrences(file[P_a_b].rows, <<wcall[w].id, 1>>) = 1

\* all NThreads threads have ended, and the thread that called first is not
\* the one that created the dataset
C1_Witness ==
    /\ Quiescent
    /\ Cardinality(Called) = NThreads
    /\ file[P_a_b] # NONE
    /\ Len(file[P_a_b].rows) = NThreads
    /\ file[P_a_b].rows[1] # <<1, 1>>

\* C2: an append that raises on a path that holds a dataset leaves the
\* dataset's length as it found it (no resize, no partial write).
C2_IncompatibleAppendKeepsLength ==
    \A w \in Writers :
        (wcall[w].st = "exc" /\ wcall[w].node = "dataset") => wcall[w].len1 = wcall[w].len0

\* a batch of length zero: an empty array or list, an empty dict, or a dict
\* whose value lists are all empty
ZeroLength(arr) ==
    \/ PyLen(arr) = 0
    \/ arr.kind = "dict" /\ arr.vlist /\ \A i \in 1..Len(arr.lens) : arr.lens[i] = 0

\* C3: an append of a zero-length batch never creates a dataset, never
\* changes the length of the dataset at its path, and never puts a
\* notification on the queue.
C3_EmptyBatchNoOp ==
    \A w \in Writers :
        (wcall[w].st # "none" /\ ZeroLength(wcall[w].arr)) =>
            /\ wcall[w].op # "create"
            /\ wpc[w] \notin {"create", "attrs", "put"}
            /\ wcall[w].len1 = wcall[w].len0
            /\ wpc[w] \in {"resize", "write"} => DsetLen(file, wcall[w].path) = wcall[w].len0
            /\ NotifsOf(wcall[w].id) = <<>>

\* a dict of empty lists was appended to an existing compound dataset, and
\* an empty dict to an existing dataset
C3_Witness ==
    /\ \E w \in Writers :
          /\ wcall[w].st = "exc"
          /\ wcall[w].arr.vlist
          /\ ZeroLength(wcall[w].arr)
          /\ wcall[w].node = "dataset"
          /\ wcall[w].err = "TypeError"
    /\ \E w \in Writers :
          /\ wcall[w].st = "ret"
          /\ wcall[w].arr = DictOfScalars(<<>>)
          /\ file[wcall[w].path] # NONE

\* is_group of each notification of a sequence
GrpFlags(ns) == [i \in 1..Len(ns) |-> ns[i].grp]

\* the appends that returned and were not skipped as empty
Succeeded(w) == wcall[w].st = "ret" /\ PyLen(wcall[w].arr) # 0

\* C4 as claimed: every successful append of a non-empty batch creates or
\* extends, and puts exactly one notification on the queue.
C4_OneNotificationPerAppend ==
    \A w \in Writers :
        Succeeded(w) =>
            /\ wcall[w].op \in {"create", "extend"}
            /\ Len(NotifsOf(wcall[w].id)) = 1

\* C4 amended: every successful append of a non-empty batch either creates the
\* dataset (it found none, the dataset starts with the batch) or extends it
\* (it found one, the length grows by the batch), never both, and puts exactly
\* one dataset notification (path, batch, False) on the queue; a creating
\* append puts one group notification (path, None, True) before it, an
\* extending append puts nothing else.
C4_NotificationsPerAppend ==
    \A w \in Writers :
        Succeeded(w) =>
            LET c == wcall[w]
                ns == NotifsOf(c.id)
            IN /\ \/ /\ c.op = "create"
                     /\ c.node = "missing"
                     /\ c.len1 = c.batch.n
                     /\ GrpFlags(ns) = <<TRUE, FALSE>>
                     /\ ns[1].data = NONE
                  \/ /\ c.op = "extend"
                     /\ c.node = "dataset"
                     /\ c.len1 = c.len0 + c.batch.n
                     /\ GrpFlags(ns) = <<FALSE>>
               /\ ns[Len(ns)].path = c.path
               /\ ns[Len(ns)].data.rows = BatchRows(c.id, c.batch.n)
               /\ \A i \in 1..Len(ns) : ns[i].path = c.path

\* one append has created a dataset and another has extended one
C4_Witness ==
    /\ \E w \in Writers : Succeeded(w) /\ wcall[w].op = "create"
    /\ \E w \in Writers : Succeeded(w) /\ wcall[w].op = "extend"

\* ------------------------------------------------------------ delivery
RECURSIVE SumOver(_, _)
SumOver(f, S) ==
    IF S = {} THEN 0
    ELSE LET x == CHOOSE y \in S : TRUE IN f[x] + SumOver(f, S \ {x})

\* how often the callback callid was called for the notification key
TimesInvoked(callid, key) ==
    SumOver(invoked, {r \in DOMAIN invoked :
                         r.id = callid /\ r.call = key[1] /\ r.grp = key[2]})

\* how often the callback callid was called at all
TotalInvoked(callid) == SumOver(invoked, {r \in DOMAIN invoked : r.id = callid})

\* the rows of the dataset at path that append call c wrote
RowsOf(path, c) ==
    IF file[path] = NONE THEN <<>> ELSE SelectSeq(file[path].rows, LAMBDA r : r[1] = c)

\* C5: a dataset callback is called at most once for one append and always
\* with the rows that append wrote, and once the fan-out of the notification
\* of a successful append to p has ended, every dataset callback that was
\* registered on p before the notification was queued, and still is, has been
\* called exactly once for it.
C5_DatasetCallbackOncePerAppend ==
    /\ \A r \in DOMAIN invoked :
          ~r.grp => /\ TimesInvoked(r.id, <<r.call, FALSE>>) = 1
                    /\ r.arg # NONE
                    /\ r.arg.rows = RowsOf(r.path, r.call)
    /\ \A key \in DOMAIN fanout :
          (~key[2] /\ fanout[key].st = "done") =>
              \A i \in 1..Len(dsetCb) :
                  (dsetCb[i].path = fanout[key].path /\ dsetCb[i].id < fanout[key].stamp)
                      => TimesInvoked(dsetCb[i].id, key) = 1

\* two appends to one path have both been delivered to one dataset callback,
\* each with its own row, and the dataset holds both rows
C5_Witness ==
    \E r1 \in DOMAIN invoked : \E r2 \in DOMAIN invoked :
        /\ ~r1.grp /\ ~r2.grp
        /\ r1.id = r2.id
        /\ r1.path = r2.path
        /\ r1.call # r2.call
        /\ r1.arg.rows # r2.arg.rows
        /\ Len(r2.arg.rows) < Len(file[r2.path].rows)
        /\ \A i \in {r1.call, r2.call} :
              <<i, FALSE>> \in DOMAIN fanout /\ fanout[<<i, FALSE>>].st = "done"
        /\ r1.id \in Ids(dsetCb)

\* the test a callback registered on callpath must pass for a notification
\* of path: group callbacks by prefix, dataset callbacks by equality
MatchesByKind(isGroup, path, callpath) ==
    IF isGroup
    THEN Len(callpath) <= Len(path) /\ SubSeq(path, 1, Len(callpath)) = callpath
    ELSE callpath = path

\* C7: a callback is only ever called for a notification it matches by kind
\* (group: the notified path starts with the subscribed path; dataset: the
\* paths are equal), and the snapshot of a notification holds a callback
\* registered before the notification was queued exactly if it matches.
C7_MatchingByKind ==
    /\ \A r \in DOMAIN invoked : MatchesByKind(r.grp, r.path, r.callpath)
    /\ \A key \in DOMAIN fanout :
          LET f == fanout[key]
              cbs == IF key[2] THEN grpCb ELSE dsetCb
          IN \A i \in 1..Len(cbs) :
                /\ cbs[i].id \in SeqToSet(f.snap) => MatchesByKind(key[2], f.path, cbs[i].path)
                /\ (cbs[i].id < f.stamp /\ MatchesByKind(key[2], f.path, cbs[i].path))
                       => cbs[i].id \in SeqToSet(f.snap)

\* a group callback on /a was called for the creation of /a/b/c, and the
\* write to /a/b/c was fanned out without the dataset callback on /a/b
C7_Witness ==
    /\ \E r \in DOMAIN invoked : r.grp /\ r.callpath = P_a /\ r.path = P_a_b_c
    /\ \E key \in DOMAIN fanout : \E i \in 1..Len(dsetCb) :
          /\ ~key[2]
          /\ fanout[key].path = P_a_b_c
          /\ fanout[key].st = "done"
          /\ dsetCb[i].path = P_a_b
          /\ dsetCb[i].id < fanout[key].stamp
          /\ dsetCb[i].id \notin SeqToSet(fanout[key].snap)
          /\ TotalInvoked(dsetCb[i].id) = 0

\* the append call c created the dataset at path
CreatedBy(path, c) == file[path] # NONE /\ file[path].rows[1][1] = c

\* C6: a group callback is called only for the creation of a dataset, at
\* most once for one creation, and once the fan-out of the creation of p has
\* ended, every group callback registered on a prefix of p before the
\* notification was queued, and still registered, has been called exactly
\* once for it.
C6_GroupCallbackOnceOnCreation ==
    /\ \A r \in DOMAIN invoked :
          r.grp => /\ TimesInvoked(r.id, <<r.call, TRUE>>) = 1
                   /\ CreatedBy(r.path, r.call)
    /\ \A key \in DOMAIN fanout :
          (key[2] /\ fanout[key].st # "run") =>
              \A i \in 1..Len(grpCb) :
                  (/\ MatchesByKind(TRUE, fanout[key].path, grpCb[i].path)
                   /\ grpCb[i].id < fanout[key].stamp)
                      => TimesInvoked(grpCb[i].id, key) = 1

\* a worker is in the except clause of the call of callid
Handling(callid) ==
    \E k \in Workers : wk[k].pc = "except" /\ wk[k].calls[wk[k].i].id = callid

\* C8: a callback that raises EOFError or TimeoutExpired on every call is
\* called at most once in all, is in neither map once the except clause of
\* its call has run, and every fan-out that has ended has called each
\* callback of its snapshot that is still registered.
C8_FailingSubscriberRemoved ==
    /\ \A r \in DOMAIN invoked :
          r.func = "eof" =>
              /\ TotalInvoked(r.id) <= 1
              /\ ~Handling(r.id) => r.id \notin Ids(dsetCb) \cup Ids(grpCb)
    /\ \A key \in DOMAIN fanout :
          fanout[key].st # "run" =>
              \A id \in SeqToSet(fanout[key].snap) \cap (Ids(dsetCb) \cup Ids(grpCb)) :
                  TimesInvoked(id, key) >= 1

\* C9: a fan-out that has ended, for a notification of either kind, has
\* called every callback of its snapshot, whatever the calls before it did
\* and whoever removed their ids meanwhile.
C9_FailureDoesNotStopFanout ==
    \A key \in DOMAIN fanout :
        fanout[key].st # "run" =>
            \A i \in 1..Len(fanout[key].snap) : TimesInvoked(fanout[key].snap[i], key) >= 1

\* C10: whatever the callbacks do and whether or not the callback thread
\* runs, no append raises, a writer at a queue.put can always complete it,
\* a writer inside the locked block can always take its next step, and a
\* writer waiting for the lock waits for a writer inside the locked block.
C10_WriterIsolated ==
    \A w \in ServerWriters :
        /\ wcall[w].st # "exc"
        /\ wpc[w] = "put" => ENABLED AppendPut(w)
        /\ wpc[w] \in {"lookup", "create", "resize", "write"} => ENABLED AppendStep(w)
        /\ wpc[w] = "acquire" =>
               \/ ENABLED AppendAcquire(w)
               \/ \E o \in Writers : lock = o /\ wpc[o] \in {"lookup", "create", "resize", "write"}

\* a callback has raised, every pool worker is inside a callback that never
\* returns, and an append made its queue.put in that situation and returned
C10_Witness ==
    /\ \E r \in DOMAIN invoked : r.func = "eof"
    /\ \A k \in Workers : wk[k].pc = "hung"
    /\ \E w \in ServerWriters :
          wcall[w].st = "ret" /\ wcall[w].hung = CALLBACK_THREAD_COUNT

\* ----------------------------------------------------------- start / stop
\* the stop() call made on the running controller has ended
StopEnded == ctl.n > 0 /\ ctl.pc = "idle"

\* C11: once stop() on a running dispatcher has ended, it has not raised,
\* the loop thread has terminated, the stop flag is cleared again and the
\* controller is in the not-running state.
C11_StopLeavesNotRunning ==
    StopEnded =>
        /\ ctl.err = ""
        /\ ~thread
        /\ loopPc = "done"
        /\ ~stopEvent

\* C12: a stop() made while deliveries are in flight ends by returning, not
\* by raising, and when it has returned the pool has run every task it was
\* handed: no task waits, no worker is inside _call_callback, so no callback
\* is invoked afterwards; the loop has left its while and dequeues nothing.
C12_StopWithDeliveriesInFlight ==
    /\ StopEnded => ctl.err # "TypeError"
    /\ (StopEnded /\ ctl.err = "") =>
          /\ tasks = <<>>
          /\ \A k \in Workers : wk[k].pc = "idle"
          /\ loopPc = "done"

\* ------------------------------------------------------------ registry
\* the ids get_callback_id has handed out: <<client, position, id>> for the
\* register_callback calls that returned, position 0 for a running call
Handed ==
    UNION {{<<t, i, reg[t].got[i]>> : i \in 1..Len(reg[t].got)} : t \in RegClients}
    \cup {<<t, 0, reg[t].callid>> : t \in {u \in RegClients : reg[u].pc = "insert"}}

\* C13: no two register_callback calls, of either kind and of whatever
\* clients, are handed the same id, also when the subscription of the earlier
\* one has been removed meanwhile; the keys of the two maps are ids that were
\* returned, each held once.
C13_CallbackIdsUnique ==
    /\ \A x \in Handed : \A y \in Handed : x[3] = y[3] => x = y
    /\ Ids(dsetCb) \cup Ids(grpCb) \subseteq {x[3] : x \in {y \in Handed : y[2] > 0}}
    /\ Ids(dsetCb) \cap Ids(grpCb) = {}
    /\ Cardinality(Ids(dsetCb)) = Len(dsetCb)
    /\ Cardinality(Ids(grpCb)) = Len(grpCb)

\* two clients were inside register_callback together (the later id was
\* inserted first), every client has had an id returned, and the
\* subscription of a returned id has been removed
C13_Witness ==
    /\ \E cbs \in {dsetCb, grpCb} : Len(cbs) >= 2 /\ cbs[1].id > cbs[2].id
    /\ removes >= 1
    /\ \E x \in Handed : x[2] > 0 /\ x[3] \notin Ids(dsetCb) \cup Ids(grpCb)
    /\ \A t \in RegClients : reg[t].got # <<>>

\* the entries of a map without the one of callid, in their order
Without(cbs, callid) ==
    LET keep == {i \in 1..Len(cbs) : cbs[i].id # callid}
        pos(j) == CHOOSE i \in keep : Cardinality({h \in keep : h < i}) = j - 1
    IN [j \in 1..Cardinality(keep) |-> cbs[pos(j)]]

UnequalLists(arr) ==
    /\ arr.kind = "dict"
    /\ arr.vlist
    /\ \E i \in 1..Len(arr.lens) : \E j \in 1..Len(arr.lens) : arr.lens[i] # arr.lens[j]

\* C15: an append of a dict whose value lists differ in length does not
\* return normally, creates no dataset, appends no row and puts no
\* notification on the queue.
C15_UnequalListsRejected ==
    \A w \in Writers :
        (wcall[w].st # "none" /\ UnequalLists(wcall[w].arr)) =>
            /\ wcall[w].st # "ret"
            /\ wcall[w].op = "none"
            /\ wcall[w].len1 = wcall[w].len0
            /\ NotifsOf(wcall[w].id) = <<>>

\* -------------------------------------------------------------- reads
\* this step is a read call (get, get_data or get_keys)
ReadStep == rd'.n = rd.n + 1

\* C16: every get, get_data and get_keys step on a path that holds no node
\* ends with an error, every get_data step on a path that holds a group ends
\* with an error, and whatever its outcome a read step changes neither the
\* datasets and their attributes nor the lock nor the notification queue.
C16_ReadsFailOrReturnAndChangeNothing ==
    [][ReadStep =>
          /\ NodeAt(file, rd'.path) = "missing" => rd'.err # ""
          /\ (rd'.op = "get_data" /\ NodeAt(file, rd'.path) = "group") => rd'.err # ""
          /\ rd'.err # "" => rd'.val = NONE
          /\ file' = file
          /\ queue' = queue
          /\ lock' = lock]_vars

\* a get_data call on a path that holds a group has failed while datasets
\* exist and notifications wait in the queue
C16_Witness ==
    /\ rd.n > 0
    /\ rd.op = "get_data"
    /\ NodeAt(file, rd.path) = "group"
    /\ rd.err = "HDF5FileInterfaceError"
    /\ queue # <<>>

\* C17: a get_data(path) step without field returns, for every append to
\* path that has returned successfully before the step, a dataset that holds
\* all rows of that append's batch.
C17_ReadYourWrites ==
    [][(ReadStep /\ rd'.op = "get_data" /\ rd'.field = "") =>
          \A w \in Writers :
              (Succeeded(w) /\ wcall[w].path = rd'.path) =>
                  /\ rd'.err = ""
                  /\ \A k \in 1..wcall[w].batch.n :
                        Occurrences(rd'.val.rows, <<wcall[w].id, k>>) = 1]_vars

\* get_data has returned the rows of an append that had returned, while the
\* notification of that append was still in the queue
C17_Witness ==
    /\ rd.n > 0
    /\ rd.op = "get_data"
    /\ rd.err = ""
    /\ \E w \in Writers :
          /\ Succeeded(w)
          /\ wcall[w].path = rd.path
          /\ Occurrences(rd.val.rows, <<wcall[w].id, 1>>) = 1
          /\ Len(rd.val.rows) > wcall[w].batch.n
          /\ NotifsOf(wcall[w].id) # <<>>

\* ---------------------------------------------------------- life cycle
\* the start or stop step raised CallbackControllerError and changed nothing
Rejected ==
    /\ ctl'.err = "CallbackControllerError"
    /\ ctl'.pc = "idle"
    /\ UNCHANGED <<storeVars, clientVars, measVars, held>>
    /\ UNCHANGED <<dsetCb, grpCb, nextId, thread, stopEvent, loopPc, tasks, wk, invoked,
                   fanout, removes>>

\* C18: the controller counts as running while self._thread is set.  Every
\* start() on a running controller and every stop() on one that is not
\* running raises CallbackControllerError and changes nothing; a start() that
\* is accepted creates the loop thread when no loop thread is alive, and no
\* loop thread is alive while the controller is not running: there is never
\* more than one.
C18_LifecycleMisuseRejected ==
    /\ [](~thread => loopPc = "done")
    /\ [][ctl'.n = ctl.n + 1 =>
             /\ (ctl'.op = "start" /\ thread) => Rejected
             /\ (ctl'.op = "stop" /\ ~thread) => Rejected
             /\ (ctl'.op = "start" /\ ~thread) =>
                   (ctl'.err = "" /\ thread' /\ loopPc = "done" /\ loopPc' = "check")]_vars

\* the controller was started, stopped and started again, and a further
\* start() on the running controller has been rejected
C18_Witness ==
    /\ ctl.n = 4
    /\ ctl.op = "start"
    /\ ctl.err = "CallbackControllerError"
    /\ thread
    /\ loopPc # "done"

\* ------------------------------------------------- what subscribers get
DsetNotifications == {i \in 1..Len(queue) : ~queue[i].grp}

\* notification i was queued by the append call that created its dataset
FromCreate(i) ==
    \E j \in 1..Len(queue) : queue[j].grp /\ queue[j].call = queue[i].call

\* C19: the data of every dataset notification is the array
\* _convert_to_array returned, never the dict append was called with: it has
\* the field names of the dataset it was written to and one row per row of
\* the batch, whether the append created the dataset or extended it.
C19_NotificationCarriesConvertedBatch ==
    \A i \in DsetNotifications :
        LET q == queue[i]
        IN /\ "kind" \notin DOMAIN q.data
           /\ file[q.path] # NONE
           /\ q.data.names = file[q.path].names
           /\ \A k \in 1..Len(q.data.rows) : q.data.rows[k] = <<q.call, k>>

\* two appends of dicts are queued, the one that created a dataset and one
\* that extended a dataset whose fields are not the keys of the dict
C19_Witness ==
    /\ \E i \in DsetNotifications : queue[i].data.names # <<>> /\ FromCreate(i)
    /\ \E i \in DsetNotifications :
           /\ queue[i].data.names = <<"x">>
           /\ ~FromCreate(i)
           /\ \E w \in 1..NWriters :
                 /\ wcall[w].id = queue[i].call
                 /\ wcall[w].arr = DictOfScalars(<<"x", "y">>)

\* C20: every dataset has the created_on attribute _create_dataset gave it
C20_CreatedOnSetOnce ==
    \A p \in AllPaths :
        file[p] # NONE =>
            /\ "created_on" \in DOMAIN file[p].attrs
            /\ file[p].attrs["created_on"] = "ctime"

\* ------------------------------------------------- queue to dispatcher
\* the notifications the appends of a run can enqueue
NotificationKeys == (1..MaxDrainCalls) \X BOOLEAN

KeyCount(s, key) == Cardinality({i \in 1..Len(s) : NKey(s[i]) = key})

\* notifications handed to the pool (as a task, or taken by a worker that has
\* not built its calls yet) and notifications whose fan-out was begun
InPool(key) ==
    KeyCount(tasks, key)
    + Cardinality({k \in Workers : wk[k].pc \in {"snapshot", "locked"} /\ NKey(wk[k].args) = key})

IsDequeued(key) == InPool(key) > 0 \/ key \in DOMAIN fanout

Dequeued == {key \in NotificationKeys : IsDequeued(key)}

Enqueued(key) == KeyCount(queue, key) > 0

\* a notification is at one place at a time: on the queue, or in the pool, or
\* fanned out; and a step that takes an item off the queue takes the first
\* one, which was never dequeued before and is dequeued from then on
DequeuedAtMostOnce ==
    /\ [](\A key \in NotificationKeys :
             KeyCount(queue, key) + InPool(key)
               + (IF key \in DOMAIN fanout THEN 1 ELSE 0) <= 1)
    /\ [][/\ Dequeued \subseteq Dequeued'
          /\ Len(queue') < Len(queue) =>
                /\ queue' = Tail(queue)
                /\ NKey(Head(queue)) \notin Dequeued
                /\ NKey(Head(queue)) \in Dequeued']_vars

\* the _callback_thread loop has seen STOP_EVENT set and has left the loop
LoopLeft == loopPc \in {"close", "done"}

C22_DatasetLifeCycle ==
    [][\A p \in AllPaths :
          file[p] # NONE =>
             /\ file'[p] # NONE
             /\ file'[p].names = file[p].names
             /\ file'[p].sec = file[p].sec
             /\ Len(file'[p].rows) >= Len(file[p].rows)
             /\ \A k \in 1..Len(file[p].rows) :
                   file[p].rows[k] # FillRow => file'[p].rows[k] = file[p].rows[k]]_vars

\* a dataset was created, an append to it failed after its resize, and a
\* later append extended it: rows of two calls with unwritten rows in between
C22_Witness ==
    \E p \in AllPaths :
        /\ file[p] # NONE
        /\ \E i, j, k \in 1..Len(file[p].rows) :
              /\ i < j /\ j < k
              /\ file[p].rows[i] # FillRow
              /\ file[p].rows[j] = FillRow
              /\ file[p].rows[k] # FillRow
              /\ file[p].rows[k][1] # file[p].rows[i][1]
        /\ \E w \in Writers : wcall[w].st = "exc" /\ wcall[w].path = p

\* ------------------------------------------------- the store-wide lock
\* the step of writer w stamps an attribute or puts a notification
StampsOrEnqueues(w) ==
    /\ wpc'[w] # wpc[w]
    /\ \/ Len(queue') > Len(queue)
       \/ \E p \in AllPaths :
             /\ file'[p] # NONE
             /\ file[p] = NONE \/ file'[p].attrs # file[p].attrs

\* C30: a writer that stamps an attribute or puts a notification on the
\* callback queue does not hold the store-wide lock while it does
C30_NoStampOrEnqueueUnderLock ==
    [][\A w \in Writers : StampsOrEnqueues(w) => lock # w]_vars

\* ------------------------------------------------- loop and subscribers
HangKeys == (1..MaxHangCalls) \X BOOLEAN

AllHung == \A k \in Workers : wk[k].pc = "hung"

\* C29: the running dispatch loop can always take its next step, whatever
\* the pool workers are doing, and every notification on the queue of a
\* started callback thread is dequeued and handed to the pool eventually,
\* also when every pool worker is inside a callback that never returns.
C29_LoopNeverWaitsForSubscriber ==
    /\ []((thread /\ loopPc \in {"check", "get"}) => ENABLED LoopRun)
    /\ \A key \in HangKeys : (thread /\ Enqueued(key)) ~> IsDequeued(key)

\* an append made its put while every pool worker was inside a callback that
\* never returns, and the loop has dequeued that notification and handed it
\* to the pool, where no worker is left to take it
C29_Witness ==
    /\ AllHung
    /\ \E w \in ServerWriters :
          /\ wcall[w].st = "ret"
          /\ wcall[w].hung = CALLBACK_THREAD_COUNT
          /\ KeyCount(tasks, <<wcall[w].id, FALSE>>) = 1

\* ------------------------------------------------- who holds which lock
MapLocks == {"dset", "grp"}

\* the thread that holds lock l is in a with block it can leave by a step of
\* its own
HolderLeaves(l) ==
    \/ held[l] = Free
    \/ \E k \in Workers :
          /\ held[l] = WorkerThread(k)
          /\ ENABLED (CallCallbackSnapshot(k) \/ ExceptRemoveDset(k) \/ ExceptRemoveGrp(k))
    \/ \E t \in RegClients :
          /\ held[l] = ClientThread(t)
          /\ ENABLED (RegisterId(t) \/ RegisterMapInsert(t) \/ ClientRemoveDset(t)
                        \/ ClientRemoveGrp(t))
    \/ /\ held[l] = CtlThread
       /\ ENABLED (StopDsetClear \/ StopGrpClear)

\* C27: a pool worker that is about to call, or is inside, a subscriber's
\* callback holds neither map lock, and whoever holds a map lock leaves its
\* with block by its own next step: register_callback and remove_callback
\* wait for no subscriber.
C27_NoLockHeldDuringCallback ==
    /\ \A k \in Workers :
          wk[k].pc \in {"call", "hung", "except"} =>
              \A l \in DOMAIN held : held[l] # WorkerThread(k)
    /\ \A l \in MapLocks : HolderLeaves(l)

\* a worker is inside a group callback that never returns, and a client in
\* register_callback or remove_callback has got the group map's lock
C27_Witness ==
    /\ \E k \in Workers : wk[k].pc = "hung" /\ wk[k].args.grp
    /\ \E t \in RegClients :
          /\ reg[t].pc \in {"map_locked", "rm_grp"}
          /\ held["grp"] = ClientThread(t)

Threads ==
    {WorkerThread(k) : k \in Workers} \cup {ClientThread(t) : t \in RegClients}
      \cup {CtlThread} \cup {WriterThread(w) : w \in Writers}

\* the locks thread th holds: the three of callbacks.py and the store's
LocksHeldBy(th) ==
    {l \in DOMAIN held : held[l] = th}
      \cup (IF \E w \in Writers : th = WriterThread(w) /\ lock = w THEN {"store"} ELSE {})

\* thread th is at a with statement, waiting for its lock
WaitsForLock(th) ==
    \/ \E k \in Workers :
          /\ th = WorkerThread(k)
          /\ \/ wk[k].pc \in {"snapshot", "rm_grp_wait"}
             \/ wk[k].pc = "except" /\ ~wk[k].args.grp
    \/ \E t \in RegClients :
          th = ClientThread(t) /\ reg[t].pc \in {"map_wait", "rm_grp_wait"}
    \/ th = CtlThread /\ ctl.pc \in {"dset_wait", "grp_wait"}
    \/ \E w \in Writers : th = WriterThread(w) /\ wpc[w] = "acquire"

\* C28: no thread holds two of the four locks, and a thread that waits for a
\* lock holds none, so there is no cycle of threads waiting for each other.
C28_AtMostOneLockPerThread ==
    \A th \in Threads :
        /\ Cardinality(LocksHeldBy(th)) <= 1
        /\ WaitsForLock(th) => LocksHeldBy(th) = {}

\* a worker is in the second with block of remove_callback, with the group
\* map's lock, while another thread holds the dataset map's lock and a writer
\* the store's
C28_Witness ==
    /\ lock # 0
    /\ held["dset"] # Free
    /\ \E k \in Workers : wk[k].pc = "rm_grp" /\ held["grp"] = WorkerThread(k)

\* a device thread of measurement m is past the entry barrier
PastEntry(m, d) ==
    \/ dv[<<m, d>>].pc \in {"start", "loop", "last", "stop", "exit_arrive", "exit_wait"}
    \/ dv[<<m, d>>].started
    \/ dv[<<m, d>>].got

AllSetUp(m) == \A d \in ms[m].devs : dv[<<m, d>>].setup

\* start() of measurement m has gone through its entry barrier
StartReturned(m) ==
    \/ ms[m].running
    \/ cl.op = "start" /\ cl.m = m /\ cl.err = "" /\ cl.pc = "idle"

\* C23: Measurement.start returns only after every device thread of the
\* measurement has finished its setup, no device thread calls start_measuring
\* or get_data before every device thread has finished its setup, and start
\* on a running measurement raises MeasurementError and starts no thread.
C23_StartAfterEverySetup ==
    /\ [](\A m \in Meas :
            /\ StartReturned(m) => AllSetUp(m)
            /\ \A d \in ms[m].devs : PastEntry(m, d) => AllSetUp(m))
    /\ [][(cl'.n = cl.n + 1 /\ cl'.op = "start" /\ ms[cl'.m].running) =>
             (cl'.err = "MeasurementError" /\ cl'.pc = "idle" /\ dv' = dv /\ ms' = ms)]_vars

\* start() of a running measurement of two devices has raised, after both
\* device threads have set up, started and measured
C23_Witness ==
    /\ cl.op = "start"
    /\ cl.err = "MeasurementError"
    /\ ms[cl.m].devs = {1, 2}
    /\ ms[cl.m].running
    /\ \A d \in {1, 2} : dv[<<cl.m, d>>].setup /\ dv[<<cl.m, d>>].started
    /\ dv[<<cl.m, 1>>].got

\* stop() of measurement m has returned to the calling thread
StopReturned(m) == cl.op = "stop" /\ cl.m = m /\ cl.err = "" /\ cl.pc = "idle"

\* the device thread has left its loop, saved what was left, called
\* stop_measuring and reached the exit barrier
ThreadFinished(m, d) ==
    /\ dv[<<m, d>>].pc \in {"exit_wait", "none"}
    /\ dv[<<m, d>>].saved
    /\ HasGetData(d) => dv[<<m, d>>].got
    /\ dv[<<m, d>>].stopped

\* C24: Measurement.stop on a running measurement returns only after every
\* device thread has left its measuring loop, saved its remaining data and
\* called stop_measuring; the stop flag is then cleared, no barrier is ever
\* broken and a start of the stopped measurement is accepted; stop on a
\* measurement that is not running raises MeasurementError.
C24_StopAfterEveryThread ==
    /\ [](\A m \in Meas :
            /\ StopReturned(m) =>
                  /\ \A d \in ms[m].devs : ThreadFinished(m, d)
                  /\ ~ms[m].stopEv
                  /\ ~ms[m].running
            /\ ~ms[m].entry.broken
            /\ ~ms[m].exit.broken)
    /\ [][cl'.n = cl.n + 1 =>
             /\ (cl'.op = "stop" /\ ~ms[cl'.m].running) =>
                   (cl'.err = "MeasurementError" /\ cl'.pc = "idle" /\ ms' = ms /\ dv' = dv)
             /\ (cl'.op = "stop" /\ ms[cl'.m].running) =>
                   (cl'.err = "" /\ cl'.pc = "exit_arrive" /\ ms'[cl'.m].stopEv)
             /\ (cl'.op = "start" /\ StopReturned(cl'.m)) =>
                   (cl'.err = "" /\ cl'.pc = "entry_arrive")]_vars

\* a measurement of two devices was started, stopped and started again: its
\* second run measures, and the device without get_data waits at the exit
\* barrier
C24_Witness ==
    \E m \in Meas :
        /\ ms[m].runs = 2
        /\ ms[m].running
        /\ ms[m].devs = {1, 2}
        /\ dv[<<m, 1>>].got
        /\ dv[<<m, 2>>].pc = "exit_wait"

\* stop() of a measurement that is not running has raised
C24_StopRejected ==
    /\ cl.op = "stop"
    /\ cl.err = "MeasurementError"
    /\ ms[cl.m].runs = 1

\* the step is a call of measure that repeats the name and the devices of
\* the call of measure before it, which returned a Measurement
MeasureRepeated ==
    /\ cl'.n = cl.n + 1
    /\ cl'.op = "measure"
    /\ cl.op = "measure"
    /\ cl.err = ""
    /\ ins'.lastName = ins.lastName
    /\ ins'.lastDevs = ins.lastDevs

\* C25: InstrumentServer.measure returns a new Measurement only if the name
\* or the device set differs from the last measurement: two consecutive calls
\* with the same explicit name and the same devices return the same object.
C25_SameNameSameObject ==
    [][MeasureRepeated => (cl'.err = "" /\ cl'.ret = cl.ret)]_vars

\* what the code does: the object is returned again only when the name is an
\* absolute path, which os.path.join keeps as it is
C25_SameObjectForAbsoluteName ==
    [][(MeasureRepeated /\ ins.lastName[1] = "/") => (cl'.err = "" /\ cl'.ret = cl.ret)]_vars

\* the second of two equal calls of measure with a relative name has
\* returned another Measurement
C25_SecondObject ==
    /\ cl.op = "measure"
    /\ cl.n = 2
    /\ cl.err = ""
    /\ cl.ret = 2
    /\ ins.lastName = <<"run">>
    /\ ms[1].name = ms[2].name
    /\ ms[1].devs = ms[2].devs

\* a measuring thread of measurement m is alive and has not reached the
\* exit barrier
Measuring(m) ==
    \E d \in ms[m].devs :
        dv[<<m, d>>].pc \in {"setup", "entry_arrive", "entry_wait", "start", "loop", "last",
                             "stop", "exit_arrive"}

\* C26: InstrumentServer.stop shuts down in order: a running measurement is
\* stopped first, then the status thread is stopped and has made its last
\* append, and only then is the data server stopped, so that no status or
\* measurement append reaches a closed data file.
C26_OrderedShutdown ==
    /\ ins.ds = "down" =>
          /\ ins.status = "done"
          /\ \A m \in Meas : ~ms[m].running /\ ~Measuring(m)
    /\ ins.late = {}

\* what the code does: the order holds for the status thread and for the
\* measurement that measure returned last
C26_OrderedForLastMeasurement ==
    /\ ins.ds = "down" =>
          /\ ins.status = "done"
          /\ ins.measurement # 0 =>
                (~ms[ins.measurement].running /\ ~Measuring(ins.measurement))
    /\ ins.late \subseteq (Meas \ {ins.measurement})

\* the data server is down and a thread of an older measurement has
\* appended since
C26_LateAppend ==
    /\ ins.ds = "down"
    /\ ins.late # {}
    /\ ins.sapp

\* ------------------------------------------------ store, compound appends
\* the append call of writer w has ended, and it was an append of a dict to
\* an existing compound dataset
DictOnCompound(w) ==
    /\ wcall[w].st \in {"ret", "exc"}
    /\ wcall[w].arr.kind = "dict"
    /\ wcall[w].node = "dataset"
    /\ file[wcall[w].path].names # <<>>

\* every field the dataset's record declares is a key of the dict
HasDeclared(w) ==
    \A i \in 1..Len(file[wcall[w].path].names) :
        file[wcall[w].path].names[i] \in SeqToSet(wcall[w].arr.keys)

TimesIn(s, x) == Cardinality({i \in 1..Len(s) : s[i] = x})

\* the device a sample was collected from, and its cycle
DeviceOf(x) == x[2]
CycleOf(x) == x[1]

Cached(x) == TimesIn(sm.cache[DeviceOf(x)], x) > 0

StatusStopReturned == sm.cop = "stop" /\ sm.cerr = "" /\ sm.cpc = "idle"

\* C33: StatusMeasurement.stop on a running status measurement eventually
\* returns, and returns only after the status thread has left its loop and
\* disconnected from the data server; afterwards start is accepted again.
C33_StopReturns ==
    /\ (sm.cpc = "wait") ~> (sm.cpc = "idle")
    /\ [](StatusStopReturned => (sm.pc = "done" /\ sm.conn = "none" /\ ~sm.stopEv))
    /\ [][(StatusStopReturned /\ sm'.cn = sm.cn + 1 /\ sm'.cop = "start") =>
             (sm'.cerr = "" /\ sm'.pc = "connect")]_vars

\* what the code does: stop() returns unless the status thread has died, by
\* an exception of its gateway, before it set STATUS_THREAD_STOP_EVENT
C33_StopReturnsUnlessThreadDied ==
    /\ (sm.cpc = "wait") ~> (sm.cpc = "idle" \/ sm.pc = "dead")
    /\ [](sm.pc = "dead" => sm.outages > 0)
    /\ [](StatusStopReturned => (sm.pc = "done" /\ sm.conn = "none" /\ ~sm.stopEv))
    /\ [][(StatusStopReturned /\ sm'.cn = sm.cn + 1 /\ sm'.cop = "start") =>
             (sm'.cerr = "" /\ sm'.pc = "connect")]_vars

\* stop() waits for a status thread that ended in dgw.disconnect() with no
\* connection left to close
C33_StopHangs ==
    /\ sm.cpc = "wait"
    /\ sm.pc = "dead"
    /\ sm.conn = "none"
    /\ sm.stopEv
    /\ ~sm.doneEv

\* the status measurement was stopped and started again, and its second
\* thread has collected a sample
C33_Restarted ==
    /\ sm.cn = 3
    /\ sm.cop = "start"
    /\ sm.cerr = ""
    /\ sm.pc = "send"
    /\ sm.cycles = 2

\* ------------------------------------------------------- gui gateway
\* the step is a call of GuiDataGateway.register_callback
GuiRegisterStep == rd'.n = rd.n + 1 /\ rd'.op = "register_callback"

\* the step has put (path, func) into the map of its kind under a new id
RegisteredInStep(path, func, isGroup, callid) ==
    LET old == IF isGroup THEN grpCb ELSE dsetCb
        new == IF isGroup THEN grpCb' ELSE dsetCb'
    IN /\ Len(new) = Len(old) + 1
       /\ new[Len(new)] = [id |-> callid, path |-> path, func |-> func]
       /\ callid \notin Ids(dsetCb) \cup Ids(grpCb)

\* C34: GuiDataGateway.register_callback(path, func, is_group) on a gateway
\* with callbacks enabled registers func for path on the data server and
\* returns the subscription id; with callbacks disabled it raises
\* BaseGatewayError and registers nothing.
C34_GuiRegisterCallback ==
    [][GuiRegisterStep =>
          IF rd'.field[3]
          THEN /\ rd'.err = ""
               /\ RegisteredInStep(rd'.path, rd'.field[1], rd'.field[2], rd'.val)
          ELSE /\ rd'.err = "BaseGatewayError"
               /\ dsetCb' = dsetCb
               /\ grpCb' = grpCb]_vars

\* what the code does: with callbacks disabled the call raises
\* BaseGatewayError, with callbacks enabled it raises what get_data raises;
\* it never registers anything and never returns an id
C34_NothingRegistered ==
    [][GuiRegisterStep =>
          /\ rd'.err # ""
          /\ ~rd'.field[3] => rd'.err = "BaseGatewayError"
          /\ dsetCb' = dsetCb
          /\ grpCb' = grpCb
          /\ nextId' = nextId]_vars

\* register_callback with callbacks enabled on the path of a dataset has
\* raised, and no callback is registered
C34_NotRegistered ==
    /\ rd.op = "register_callback"
    /\ rd.field[3]
    /\ NodeAt(file, rd.path) = "dataset"
    /\ rd.err \in SelectionErrors
    /\ dsetCb = <<>>
    /\ grpCb = <<>>

\* ------------------------------------------------ callbacks, continued
\* the invocations (callid, notification, argument) made in this step
InvokedInStep ==
    {r \in DOMAIN invoked' : invoked'[r] > (IF r \in DOMAIN invoked THEN invoked[r] ELSE 0)}

\* C35: after remove_callback(id) has returned, the callback registered
\* under id is never invoked again, however remove_callback interleaves with
\* the pool workers.  A callback that returns normally leaves the maps only
\* by remove_callback or by stop(); as long as stop() was not called, it is
\* invoked only while it is registered.
C35_NotInvokedAfterRemove ==
    [][\A r \in InvokedInStep :
          (r.func = "ok" /\ ctl.n = 0) => r.id \in Ids(dsetCb) \cup Ids(grpCb)]_vars

\* a callback that was removed by remove_callback has been invoked for a
\* notification whose worker had built its list of calls before
C35_InvokedAfterRemove ==
    /\ removes = 1
    /\ ctl.n = 0
    /\ \E r \in DOMAIN invoked :
          /\ r.func = "ok"
          /\ r.id \notin Ids(dsetCb) \cup Ids(grpCb)
          /\ \A k \in Workers : wk[k].pc = "idle"

\* the append calls whose rows stand in the dataset at path before the rows
\* of call c
WrittenBefore(path, c) ==
    IF file[path] = NONE THEN {}
    ELSE LET rows == file[path].rows
         IN {rows[i][1] : i \in {j \in 1..Len(rows) :
                                   \E k \in 1..Len(rows) : j < k /\ rows[k][1] = c /\ rows[j][1] # c}}

\* C36: a dataset-kind subscriber on path p receives the batches appended
\* to p in the order in which their rows were written to the dataset: when
\* it is invoked for a batch, it has been invoked for every batch written
\* before (the subscriber returns normally, was registered before the first
\* append and is neither removed nor stopped).
C36_DeliveredInWriteOrder ==
    [][\A r \in InvokedInStep :
          (~r.grp /\ r.func = "ok" /\ removes = 0 /\ ctl.n = 0) =>
              \A c \in WrittenBefore(r.path, r.call) \ {0} :
                  \E q \in DOMAIN invoked : q.id = r.id /\ q.call = c /\ ~q.grp]_vars

\* a subscriber has been invoked for the second batch of its dataset and
\* not yet for the first
C36_SecondBatchFirst ==
    /\ removes = 0
    /\ ctl.n = 0
    /\ \E r \in DOMAIN invoked :
          /\ ~r.grp
          /\ r.func = "ok"
          /\ r.call = 2
          /\ 1 \in WrittenBefore(r.path, 2)
          /\ \A q \in DOMAIN invoked : ~(q.id = r.id /\ q.call = 1 /\ ~q.grp)

\* C37: a dataset-kind subscriber is invoked only for batches whose append
\* was called after its register_callback returned.  The id of such a
\* subscriber was handed out before the batch was queued: it is below the
\* id generator's next value at the time of the put.
C37_NoBatchFromBeforeRegistration ==
    [][\A r \in InvokedInStep :
          ~r.grp => r.id < fanout[<<r.call, FALSE>>].stamp]_vars

\* a subscriber has been invoked for a batch that was written and queued
\* before the subscriber's id existed
C37_OldBatchDelivered ==
    \E r \in DOMAIN invoked :
        /\ ~r.grp
        /\ r.id >= fanout[<<r.call, FALSE>>].stamp
        /\ \E w \in ServerWriters : wcall[w].id = r.call /\ wcall[w].st = "ret"

\* C38: a group-kind subscription on path g is notified of the creation of
\* a dataset only if the dataset lies at g or below g in the hierarchy; a
\* subscription on /a is not notified for /ab.
C38_GroupNotifiedAtOrBelow ==
    [][\A r \in InvokedInStep :
          r.grp => (r.path = r.callpath \/ IsAncestor(r.callpath, r.path))]_vars

\* the subscriber of group /a has been called for the creation of /ab
C38_SiblingNotified ==
    \E r \in DOMAIN invoked :
        r.grp /\ r.callpath = P_a /\ r.path = P_ab

\* C39: in the notification queue the creation event of a path precedes
\* every dataset event of that path, however the concurrent appends to the
\* new path interleave: every dataset event has a creation event of its
\* path before it, and none after it.
C39_CreationEventFirst ==
    \A i \in DsetNotifications :
        /\ \E j \in 1..(i - 1) : queue[j].grp /\ queue[j].path = queue[i].path
        /\ \A j \in 1..Len(queue) :
              (queue[j].grp /\ queue[j].path = queue[i].path) => j < i

\* concurrent appends to the new path interleaved: the thread that found the
\* dataset created by another queued its event before the creating thread
\* queued its own, and both stand behind the creation event
C39_Witness ==
    \E i, k \in DsetNotifications :
        /\ i < k
        /\ queue[i].path = queue[k].path
        /\ ~FromCreate(i)
        /\ FromCreate(k)
        /\ \E j \in 1..(i - 1) : queue[j].grp /\ queue[j].path = queue[i].path

\* the threads that took the step: pool workers, clients and the thread
\* inside stop() whose position changed
Stepped ==
    {WorkerThread(k) : k \in {j \in Workers : wk'[j] # wk[j]}}
        \cup {ClientThread(t) : t \in {c \in RegClients : reg'[c] # reg[c]}}
        \cup (IF ctl' # ctl THEN {CtlThread} ELSE {})

\* C40: every mutation of a subscription map (insertion in
\* register_callback; removal in remove_callback, in stop and in the
\* dispatcher's cleanup after a failed delivery), of the dataset map and of
\* the group map, is made while the mutating thread holds that map's lock.
C40_MapsMutatedUnderLock ==
    [][/\ dsetCb' # dsetCb => (Stepped # {} /\ \A th \in Stepped : held.dset = th)
       /\ grpCb' # grpCb => (Stepped # {} /\ \A th \in Stepped : held.grp = th)]_vars

\* the same for every mutation but the pop in the except clause of the
\* group branch of _call_callback
C40_LockedButGroupCleanup ==
    [][(~ \E k \in Workers : ExceptGrpPop(k)) =>
          /\ dsetCb' # dsetCb => (Stepped # {} /\ \A th \in Stepped : held.dset = th)
          /\ grpCb' # grpCb => (Stepped # {} /\ \A th \in Stepped : held.grp = th)]_vars

\* a pool worker is about to pop a group callback while another thread is
\* inside a with block of the group map's lock
C40_PopBesideHolder ==
    \E k \in Workers :
        /\ ENABLED ExceptGrpPop(k)
        /\ held.grp # Free
        /\ held.grp # WorkerThread(k)

====
